---- MODULE Spec2Model ----
(***************************************************************************)
(* Model of the MacroDashboard time-series core:                           *)
(*   - Fetch / AddRealAvgEarning  (DataFetch-GitDeploy.py): period         *)
(*     alignment of raw observations into the values / dates tables;       *)
(*   - GetData / GetLevel / GetDelta (generate_html.py and                 *)
(*     TemplateUpdate-GitDeploy.py): trailing windows of levels and deltas.*)
(*                                                                         *)
(* Timestamps are day numbers counted from 2024-01-01 (a Monday); the      *)
(* calendar operators below reproduce the Gregorian arithmetic pandas      *)
(* applies (to_period / to_timestamp, DateOffset).  Floats are exact       *)
(* rationals plus NaN and +-inf; float64 rounding is not modelled.         *)
(***************************************************************************)
EXTENDS Integers, Sequences, FiniteSets, TLC

VARIABLES pc, freq, ticker_list, warning_list, source, values, dates, call

vars == <<pc, freq, ticker_list, warning_list, source, values, dates, call>>

\* ---------------------------------------------------------------- bounds
\* Largest number of raw observations one run of Fetch receives (all tickers).
MaxObs == 2

\* ---------------------------------------------------------------- floats
\* pandas' missing timestamp
NaT == -1

NaN == [k |-> "nan", n |-> 0, d |-> 1]

PosInf == [k |-> "inf", n |-> 1, d |-> 0]

NegInf == [k |-> "inf", n |-> -1, d |-> 0]

Abs(x) == IF x < 0 THEN -x ELSE x

RECURSIVE Gcd(_, _)
Gcd(a, b) == IF b = 0 THEN a ELSE Gcd(b, a % b)

\* the rational a/b (b # 0) in lowest terms with a positive denominator
Frac(a, b) ==
    LET g == Gcd(Abs(a), Abs(b))
        s == IF b < 0 THEN -1 ELSE 1
    IN  [k |-> "num", n |-> (s * a) \div g, d |-> (s * b) \div g]

Num(i) == [k |-> "num", n |-> i, d |-> 1]

\* pd.isna / notna on a float cell: only NaN is missing, inf is not
IsNull(x) == x.k = "nan"

\* float subtraction a - b
FSub(a, b) ==
    IF IsNull(a) \/ IsNull(b) THEN NaN
    ELSE IF a.k = "inf" /\ b.k = "inf"
         THEN (IF a.n = b.n THEN NaN ELSE a)
    ELSE IF a.k = "inf" THEN a
    ELSE IF b.k = "inf" THEN (IF b.n > 0 THEN NegInf ELSE PosInf)
    ELSE Frac(a.n * b.d - b.n * a.d, a.d * b.d)

\* float division a / b of finite or missing operands (numpy: x/0 is +-inf, 0/0 is NaN)
FDiv(a, b) ==
    IF IsNull(a) \/ IsNull(b) THEN NaN
    ELSE IF b.n = 0
         THEN (IF a.n = 0 THEN NaN ELSE IF a.n > 0 THEN PosInf ELSE NegInf)
    ELSE Frac(a.n * b.d, a.d * b.n)

\* -------------------------------------------------------------- calendar
IsLeap(y) == (y % 4 = 0 /\ y % 100 # 0) \/ y % 400 = 0

DaysInYear(y) == IF IsLeap(y) THEN 366 ELSE 365

DaysInMonth(y, m) ==
    IF m = 2 THEN (IF IsLeap(y) THEN 29 ELSE 28)
    ELSE IF m \in {4, 6, 9, 11} THEN 30 ELSE 31

\* day number of y-01-01 (y >= 2024)
RECURSIVE YearStart(_)
YearStart(y) == IF y <= 2024 THEN 0 ELSE YearStart(y - 1) + DaysInYear(y - 1)

\* day number of y-m-01: the days of the months before m, in closed form
\* (0, 31, 59 or 60, ..., 334 or 335)
MonthStart(y, m) ==
    YearStart(y) + ((275 * m) \div 9) - 30
        - (IF IsLeap(y) THEN 1 ELSE 2) * ((m + 9) \div 12)

ToDay(y, m, d) == MonthStart(y, m) + d - 1

RECURSIVE YearFrom(_, _)
YearFrom(t, y) == IF t < YearStart(y + 1) THEN y ELSE YearFrom(t, y + 1)

YearOf(t) == YearFrom(t, 2024)

\* month of day number t: January and February by their lengths, the
\* later months from the day count since March 1 (months of 30 or 31 days
\* in the pattern 153 days per five months)
MonthOf(t) ==
    LET y    == YearOf(t)
        n    == t - YearStart(y)
        leap == IF IsLeap(y) THEN 1 ELSE 0
    IN  IF n < 31 THEN 1
        ELSE IF n < 59 + leap THEN 2
        ELSE ((5 * (n - 59 - leap) + 2) \div 153) + 3

DayOf(t) == t - MonthStart(YearOf(t), MonthOf(t)) + 1

Min(S) == CHOOSE x \in S : \A y \in S : x <= y

Max(S) == CHOOSE x \in S : \A y \in S : x >= y

\* Timestamp + DateOffset(months=k): same day of the month k months later,
\* clipped to the length of the target month
AddMonths(t, k) ==
    LET y  == YearOf(t)
        m  == MonthOf(t)
        z  == (y * 12 + (m - 1)) + k
        y2 == z \div 12
        m2 == (z % 12) + 1
    IN  ToDay(y2, m2, Min({DayOf(t), DaysInMonth(y2, m2)}))

\* (variant of PeriodStart: quarters floored to the month)
PeriodStartQuarterAsMonth(period_code, t) ==
    CASE period_code = "D" -> t
      [] period_code = "W" -> t - (t % 7)
      [] period_code \in {"M", "Q"} -> MonthStart(YearOf(t), MonthOf(t))
      [] period_code = "A" -> YearStart(YearOf(t))

\* s["date"].dt.floor("D") for "D", s["date"].dt.to_period(code).dt.to_timestamp()
\* otherwise: the start of the day, week (W-SUN, so Monday), month, quarter
\* (Q-DEC) or year (A-DEC) that contains t
PeriodStart(period_code, t) ==
    CASE period_code = "D" -> t
      [] period_code = "W" -> t - (t % 7)
      [] period_code = "M" -> MonthStart(YearOf(t), MonthOf(t))
      [] period_code = "Q" ->
            MonthStart(YearOf(t), 3 * ((MonthOf(t) - 1) \div 3) + 1)
      [] period_code = "A" -> YearStart(YearOf(t))

\* ------------------------------------------------------------ sequences
\* (variant of SortedSeq: the union index left in descending order)
RECURSIVE SortedSeqDescending(_)
SortedSeqDescending(S) ==
    IF S = {} THEN <<>>
    ELSE LET m == Max(S) IN <<m>> \o SortedSeqDescending(S \ {m})

RECURSIVE SortedSeq(_)
SortedSeq(S) ==
    IF S = {} THEN <<>>
    ELSE LET m == Min(S) IN <<m>> \o SortedSeq(S \ {m})

Range(s) == {s[i] : i \in 1..Len(s)}

\* the element of a set of one element: TheOne({e(x) : x \in {r}}) is e of
\* the result r, computed once and bound as a value
TheOne(S) == CHOOSE x \in S : TRUE

\* position of x in the sequence s (x occurs in s)
PosOf(s, x) == CHOOSE i \in 1..Len(s) : s[i] = x

IsStrictlyAscending(s) == \A i \in 1..(Len(s) - 1) : s[i] < s[i + 1]

\* ---------------------------------------------------------- data frames
\* A table: the period index (ascending), the ticker columns in order, and
\* one cell per (ticker, row).
EmptyFrame == [index |-> <<>>, columns |-> <<>>, data |-> [t \in {} |-> <<>>]]

\* GroupBy(...).agg("last") on one column of one group: the last entry,
\* in the order the rows were supplied, among the rows I of the group that
\* is not null; null when the group has none
LastValid(cells, I, null) ==
    LET J == {i \in I : cells[i] # null}
    IN  IF J = {} THEN null ELSE cells[Max(J)]

\* the "Time" column: the period start of every row
RECURSIVE TimeColumn(_, _)
TimeColumn(rows, period_code) ==
    IF rows = <<>> THEN <<>>
    ELSE <<PeriodStart(period_code, Head(rows).date)>>
             \o TimeColumn(Tail(rows), period_code)

\* s.groupby("Time").agg({"value": "last", "realtime_start": "last"}) for a
\* ticker of the vintage path; each column is aggregated on its own
GroupVintage(rows, period_code) ==
    LET time  == TimeColumn(rows, period_code)
        times == Range(time)
        grp   == [p \in times |-> {i \in 1..Len(rows) : time[i] = p}]
    IN  [value |-> [p \in times |->
                      LastValid([i \in 1..Len(rows) |-> rows[i].value], grp[p], NaN)],
         rel   |-> [p \in times |->
                      LastValid([i \in 1..Len(rows) |-> rows[i].realtime_start],
                                grp[p], NaT)]]

\* df.groupby("Time").agg({ticker: "last", "release_date": "last"}) for a
\* ticker of the warning list (fred.get_series): release_date is the
\* observation's own date
GroupNoVintage(rows, period_code) ==
    LET time  == TimeColumn(rows, period_code)
        times == Range(time)
        grp   == [p \in times |-> {i \in 1..Len(rows) : time[i] = p}]
    IN  [value |-> [p \in times |->
                      LastValid([i \in 1..Len(rows) |-> rows[i].value], grp[p], NaN)],
         rel   |-> [p \in times |->
                      LastValid([i \in 1..Len(rows) |-> rows[i].date], grp[p], NaT)]]

\* str.upper() on the frequency tokens callers write
Upper(code) ==
    CASE code \in {"m", "M"} -> "M"
      [] code \in {"q", "Q"} -> "Q"
      [] code \in {"w", "W"} -> "W"
      [] code \in {"a", "A"} -> "A"
      [] code \in {"y", "Y"} -> "Y"
      [] code \in {"d", "D"} -> "D"
      [] code \in {"x", "X"} -> "X"
      [] code \in {"monthly", "Monthly", "MONTHLY"} -> "MONTHLY"
      [] code \in {"quarterly", "Quarterly", "QUARTERLY"} -> "QUARTERLY"
      [] code \in {"weekly", "Weekly", "WEEKLY"} -> "WEEKLY"
      [] code \in {"annual", "Annual", "ANNUAL"} -> "ANNUAL"
      [] code \in {"daily", "Daily", "DAILY"} -> "DAILY"
      [] code \in {"year", "Year", "YEAR"} -> "YEAR"
      [] code \in {"month", "Month", "MONTH"} -> "MONTH"
      [] code \in {"biweekly", "Biweekly", "BIWEEKLY"} -> "BIWEEKLY"
      [] code = " m" -> " M"
      [] code = "monthly " -> "MONTHLY "
      [] OTHER -> code

\* str.strip() on the frequency tokens callers write
Strip(code) ==
    CASE code \in {" M", " m"} -> IF code = " M" THEN "M" ELSE "m"
      [] code = "monthly " -> "monthly"
      [] code = "MONTHLY " -> "MONTHLY"
      [] OTHER -> code

\* the frequency token of Fetch: str(freq).strip().upper() and the if-chain
FetchPeriodCode(token) ==
    LET f == Upper(Strip(token))
    IN
    IF f \in {"MONTHLY", "M"} THEN "M"
    ELSE IF f \in {"QUARTERLY", "Q"} THEN "Q"
    ELSE IF f \in {"WEEKLY", "W"} THEN "W"
    ELSE IF f \in {"ANNUAL", "A", "Y"} THEN "A"
    ELSE IF f \in {"DAILY", "D"} THEN "D"
    ELSE "ValueError"

\* (variant of Fetched: a ticker whose source call raised is kept, with
\* the observations it has: none)
FetchedWithFailed(tickers, src, skip) ==
    SelectSeq(tickers, LAMBDA t : t \notin skip)

\* the tickers of the list, in order, that are not in skip and whose source
\* call did not raise (the try / except ... continue of both loops)
RECURSIVE Fetched(_, _, _)
Fetched(tickers, src, skip) ==
    IF tickers = <<>> THEN <<>>
    ELSE LET t    == Head(tickers)
             rest == Fetched(Tail(tickers), src, skip)
         IN  IF t \notin skip /\ src[t].ok
             THEN <<t>> \o rest ELSE rest

\* the grouped frame of every fetched ticker, in the order of names
RECURSIVE GroupEach(_, _, _, _)
GroupEach(names, src, period_code, warn) ==
    IF names = <<>> THEN <<>>
    ELSE LET t == Head(names)
         IN  << IF t \in Range(warn)
                THEN GroupNoVintage(src[t].rows, period_code)
                ELSE GroupVintage(src[t].rows, period_code) >>
             \o GroupEach(Tail(names), src, period_code, warn)

\* pd.concat(frames, axis=1, sort=True): the sorted union of the indexes,
\* one column per frame (cellsOf[k] belongs to names[k]), a null cell where
\* a frame has no row
Concat(names, cellsOf, null) ==
    LET idx == SortedSeq(UNION {DOMAIN cellsOf[k] : k \in 1..Len(names)})
    IN  [index   |-> idx,
         columns |-> names,
         data    |-> [t \in Range(names) |->
                        LET col == cellsOf[PosOf(names, t)]
                        IN  [j \in 1..Len(idx) |->
                               IF idx[j] \in DOMAIN col THEN col[idx[j]] ELSE null]]]

\* Fetch(ticker_list, fred, freq, warning_list): the values and dates tables
Fetch(tickers, src, f, warn) ==
    LET period_code == FetchPeriodCode(f)
        vintage  == Fetched(tickers, src, Range(warn))
        plain    == Fetched(warn, src, {})
        names    == vintage \o plain
        grouped  == GroupEach(names, src, period_code, warn)
    IN  IF names = <<>>
        THEN [values |-> EmptyFrame, dates |-> EmptyFrame]
        ELSE [values |-> Concat(names, [k \in 1..Len(names) |-> grouped[k].value], NaN),
              dates  |-> Concat(names, [k \in 1..Len(names) |-> grouped[k].rel], NaT)]

\* monthly_values['RCES0500000003*'] = CES0500000003 / (PCEPI / 100) and the
\* copy of the CES0500000003 release dates
WithColumn(frame, name, cells) ==
    [index   |-> frame.index,
     columns |-> IF name \in Range(frame.columns) THEN frame.columns
                 ELSE Append(frame.columns, name),
     data    |-> [t \in Range(frame.columns) \cup {name} |->
                    IF t = name THEN cells ELSE frame.data[t]]]

RealAvgEarning(v) ==
    [j \in 1..Len(v.index) |->
        FDiv(v.data["CES0500000003"][j], FDiv(v.data["PCEPI"][j], Num(100)))]

\* (variant of AddRealAvgEarning: the dates table is not given the column)
AddRealAvgEarningValuesOnly(v, d) ==
    [values |-> WithColumn(v, "RCES0500000003*", RealAvgEarning(v)),
     dates  |-> d]

\* the two assignments of AddRealAvgEarning, values first
AddRealAvgEarning(v, d) ==
    [values |-> WithColumn(v, "RCES0500000003*", RealAvgEarning(v)),
     dates  |-> WithColumn(d, "RCES0500000003*", d.data["CES0500000003"])]

\* ------------------------------------------------- the fetch script's run
\* The calls of Fetch: the monthly call with its warning list, a quarterly
\* and a weekly call without one, the daily call whose tickers are all on
\* the warning list, and an annual call (Fetch accepts the annual token; the
\* script has no annual ticker list).
FetchCalls ==
    { [freq |-> "M", ticker_list |-> <<"CES0500000003", "PCEPI", "EXHOSLUSM495S">>,
       warning_list |-> <<"EXHOSLUSM495S">>],
      [freq |-> "Q", ticker_list |-> <<"GDPC1", "GDPNOW">>, warning_list |-> <<>>],
      [freq |-> "W", ticker_list |-> <<"ICSA">>, warning_list |-> <<>>],
      [freq |-> "D", ticker_list |-> <<"DFF", "DGS2">>,
       warning_list |-> <<"DFF", "DGS2">>],
      [freq |-> "A", ticker_list |-> <<"GDPC1">>, warning_list |-> <<>>] }

\* subject dates the source may report: 2024-01-17 and two days of one week
\* of May 2025, so that every frequency has a period with several
\* observations and a second period
Dates == {ToDay(2024, 1, 17), ToDay(2025, 5, 14), ToDay(2025, 5, 15)}

\* release timestamps (realtime_start) the source may report: one in the
\* three-ticker monthly call, two in the quarterly call, and in the
\* single-ticker calls also a missing one
Releases(f) ==
    {ToDay(2025, 5, 25)}
        \cup (IF f \in {"Q", "W", "A"} THEN {ToDay(2025, 6, 24)} ELSE {})
        \cup (IF f \in {"W", "A"} THEN {NaT} ELSE {})

\* what the source may report as the next observation of ticker t: its
\* value is missing or the number of observations t then has, so that the
\* observations of one ticker are told apart by their values; a ticker of
\* the warning list is read with fred.get_series, which reports no release
Observations(t, f, warn, i) ==
    IF t \in Range(warn)
    THEN { [date |-> dt, realtime_start |-> NaT, value |-> v] :
             dt \in Dates, v \in {NaN, Num(i)} }
    ELSE { [date |-> dt, realtime_start |-> r, value |-> v] :
             dt \in Dates, r \in Releases(f), v \in {NaN, Num(i)} }

RECURSIVE SumLen(_, _)
SumLen(src, tickers) ==
    IF tickers = <<>> THEN 0
    ELSE Len(src[Head(tickers)].rows) + SumLen(src, Tail(tickers))

NoCall == [op |-> "none"]

InitFetch ==
    /\ pc = "start"
    /\ \E c \in FetchCalls :
         /\ freq = c.freq
         /\ ticker_list = c.ticker_list
         /\ warning_list = c.warning_list
         /\ source = [t \in Range(c.ticker_list) |-> [ok |-> TRUE, rows |-> <<>>]]
    /\ values = EmptyFrame
    /\ dates = EmptyFrame
    /\ call = NoCall

\* the archive holds one more observation of ticker t when Fetch runs
Publish(t, o) ==
    /\ pc = "start"
    /\ source[t].ok
    /\ SumLen(source, ticker_list) < MaxObs
    /\ source' = [source EXCEPT ![t].rows = Append(@, o)]
    /\ UNCHANGED <<pc, freq, ticker_list, warning_list, values, dates, call>>

\* the source call of ticker t will raise
Unavailable(t) ==
    /\ pc = "start"
    /\ source[t] = [ok |-> TRUE, rows |-> <<>>]
    /\ source' = [source EXCEPT ![t].ok = FALSE]
    /\ UNCHANGED <<pc, freq, ticker_list, warning_list, values, dates, call>>

\* values, dates = Fetch(ticker_list, fred, freq, warning_list)
FetchStep ==
    /\ pc = "start"
    /\ LET r == Fetch(ticker_list, source, freq, warning_list)
       IN  /\ values' = r.values
           /\ dates' = r.dates
    /\ pc' = "fetched"
    /\ UNCHANGED <<freq, ticker_list, warning_list, source, call>>

\* AddRealAvgEarning() on the monthly tables: both columns exist
AddRealAvgEarningStep ==
    /\ pc = "fetched"
    /\ freq = "M"
    /\ {"CES0500000003", "PCEPI"} \subseteq Range(values.columns)
    /\ LET r == AddRealAvgEarning(values, dates)
       IN  /\ values' = r.values
           /\ dates' = r.dates
    /\ pc' = "rebuilt"
    /\ UNCHANGED <<freq, ticker_list, warning_list, source, call>>

\* AddRealAvgEarning() raises KeyError while evaluating the right-hand side
\* of its first assignment: nothing is assigned and the script stops
AddRealAvgEarningKeyError ==
    /\ pc = "fetched"
    /\ freq = "M"
    /\ ~ ({"CES0500000003", "PCEPI"} \subseteq Range(values.columns))
    /\ pc' = "crashed"
    /\ UNCHANGED <<freq, ticker_list, warning_list, source, values, dates, call>>

NextFetch ==
    \/ \E t \in Range(ticker_list) :
         \E o \in Observations(t, freq, warning_list, Len(source[t].rows) + 1) :
           Publish(t, o)
    \/ \E t \in Range(ticker_list) : Unavailable(t)
    \/ FetchStep
    \/ AddRealAvgEarningStep
    \/ AddRealAvgEarningKeyError

SpecFetch == InitFetch /\ [][NextFetch]_vars

\* ----------------------------------------------- alignment: the claims
AfterFetch == {"fetched", "rebuilt", "crashed"}

\* the tickers whose source call returned
FetchedTickers == {t \in Range(ticker_list) : source[t].ok}

\* the release timestamp an observation of t carries into the dates table
ReleaseOf(t, o) == IF t \in Range(warning_list) THEN o.date ELSE o.realtime_start

\* p is the start of the calendar interval of the frequency that contains
\* the date dt (stated without PeriodStart)
IsIntervalStart(period_code, p, dt) ==
    CASE period_code = "D" -> p = dt
      [] period_code = "W" -> p % 7 = 0 /\ p <= dt /\ dt <= p + 6
      [] period_code = "M" ->
            YearOf(p) = YearOf(dt) /\ MonthOf(p) = MonthOf(dt) /\ DayOf(p) = 1
      [] period_code = "Q" ->
            /\ YearOf(p) = YearOf(dt) /\ DayOf(p) = 1
            /\ MonthOf(p) \in {1, 4, 7, 10}
            /\ MonthOf(p) <= MonthOf(dt) /\ MonthOf(dt) <= MonthOf(p) + 2
      [] period_code = "A" ->
            YearOf(p) = YearOf(dt) /\ MonthOf(p) = 1 /\ DayOf(p) = 1

\* the observations (positions in the response) of ticker t in the period
\* that starts at p
GroupOf(t, p) ==
    {i \in 1..Len(source[t].rows) :
        IsIntervalStart(FetchPeriodCode(freq), p, source[t].rows[i].date)}

\* the periods ticker t has observations of
PeriodsOf(t) ==
    {p \in Range(values.index) : GroupOf(t, p) # {}}

\* the observations of the group with the greatest release timestamp
LatestOf(t, p) ==
    {i \in GroupOf(t, p) :
        \A j \in GroupOf(t, p) :
            ReleaseOf(t, source[t].rows[j]) <= ReleaseOf(t, source[t].rows[i])}

\* every observation of the group carries a value and a release timestamp
IsComplete(t, p) ==
    \A i \in GroupOf(t, p) :
        /\ ~IsNull(source[t].rows[i].value)
        /\ ReleaseOf(t, source[t].rows[i]) # NaT

\* C1: for every ticker of the vintage path and every period with several
\* vintages, the stored value is the value of an observation with the
\* maximum release timestamp of the group, in whatever order the
\* observations were supplied.  (Stated for the groups without a missing
\* entry; these already decide it.)
C1_LatestReleaseWins ==
    pc \in AfterFetch =>
      \A t \in FetchedTickers \ Range(warning_list) :
        \A p \in PeriodsOf(t) :
          (Cardinality(GroupOf(t, p)) >= 2 /\ IsComplete(t, p)) =>
            \E i \in LatestOf(t, p) :
              values.data[t][PosOf(values.index, p)] = source[t].rows[i].value

\* (not a claim) what Fetch does instead: the stored value is the last
\* non-missing value of the group in the order supplied, the stored release
\* timestamp the last non-missing release timestamp in the order supplied
LastSuppliedWins ==
    pc \in AfterFetch =>
      \A t \in FetchedTickers :
        \A p \in PeriodsOf(t) :
          LET rows  == source[t].rows
              valid == {i \in GroupOf(t, p) : ~IsNull(rows[i].value)}
              dated == {i \in GroupOf(t, p) : ReleaseOf(t, rows[i]) # NaT}
              cell  == values.data[t][PosOf(values.index, p)]
              rel   == dates.data[t][PosOf(dates.index, p)]
          IN  /\ IF valid = {} THEN IsNull(cell) ELSE cell = rows[Max(valid)].value
              /\ IF dated = {} THEN rel = NaT
                 ELSE rel = ReleaseOf(t, rows[Max(dated)])

\* C2: for every ticker and period the stored value and the stored release
\* timestamp are those of one and the same observation of the period, also
\* when the latest vintage lacks its value.  (Stated for the groups whose
\* release timestamps are all present, and without requiring that the one
\* observation is the authoritative one; this already decides it.)
C2_ValueAndReleaseFromOneObservation ==
    pc \in AfterFetch =>
      \A t \in FetchedTickers :
        \A p \in PeriodsOf(t) :
          (\A i \in GroupOf(t, p) : ReleaseOf(t, source[t].rows[i]) # NaT) =>
            \E i \in GroupOf(t, p) :
              /\ values.data[t][PosOf(values.index, p)] = source[t].rows[i].value
              /\ dates.data[t][PosOf(dates.index, p)] = ReleaseOf(t, source[t].rows[i])

\* the index holds exactly the periods that occur among the observations of
\* the fetched tickers: every row is the interval start of some observation
\* and every observation has the row of its interval start
HoldsObservedPeriods(index) ==
    /\ \A j \in 1..Len(index) :
         \E t \in FetchedTickers : GroupOf(t, index[j]) # {}
    /\ \A t \in FetchedTickers : \A i \in 1..Len(source[t].rows) :
         \E j \in 1..Len(index) :
           IsIntervalStart(FetchPeriodCode(freq), index[j], source[t].rows[i].date)

\* C3: both tables have exactly one row per distinct period that occurs
\* among the observations of the fetched tickers, in strictly ascending
\* period order (so no period twice).
C3_OneRowPerPeriodAscending ==
    pc \in AfterFetch =>
      /\ IsStrictlyAscending(values.index)
      /\ IsStrictlyAscending(dates.index)
      /\ HoldsObservedPeriods(values.index)
      /\ HoldsObservedPeriods(dates.index)

\* C3 witness: two tickers were fetched, one supplied two observations of
\* different periods latest first, and the table has the two rows.
C3_Witness ==
    /\ pc = "fetched"
    /\ Cardinality(FetchedTickers) >= 2
    /\ Len(values.index) = 2
    /\ \E t \in FetchedTickers :
         /\ Len(source[t].rows) = 2
         /\ source[t].rows[1].date > source[t].rows[2].date

C5_TablesShareIndexAndColumns ==
    pc \in AfterFetch =>
      /\ values.index = dates.index
      /\ values.columns = dates.columns
      /\ DOMAIN values.data = DOMAIN dates.data
      /\ \A t \in DOMAIN values.data :
           Len(values.data[t]) = Len(values.index)
           /\ Len(dates.data[t]) = Len(dates.index)

\* C5 witness: the rebuild completed although one ticker failed to fetch
\* and the two others cover different periods.
C5_Witness ==
    /\ pc = "rebuilt"
    /\ \E t \in Range(ticker_list) : ~source[t].ok
    /\ \E t, u \in FetchedTickers :
         PeriodsOf(t) # PeriodsOf(u) /\ PeriodsOf(t) # {} /\ PeriodsOf(u) # {}
    /\ "RCES0500000003*" \in Range(values.columns)

\* the list without the tickers whose source call raises
Requested(tickers) == SelectSeq(tickers, LAMBDA t : source[t].ok)

None == [k |-> "none", n |-> 0, d |-> 1]

\* (variant of NormalizeFreq: a token of no frequency is taken for Monthly)
NormalizeFreqDefaultMonthly(code) ==
    LET code_up == Upper(code)
    IN  IF code_up \in {"QUARTERLY", "Q"} THEN "Q"
        ELSE IF code_up \in {"WEEKLY", "W"} THEN "W"
        ELSE IF code_up \in {"ANNUAL", "A", "Y"} THEN "A"
        ELSE IF code_up \in {"DAILY", "D"} THEN "D"
        ELSE "M"

\* NormalizeFreq (the same table in generate_html.py and in
\* TemplateUpdate-GitDeploy.py); "ValueError" stands for the raise
NormalizeFreq(code) ==
    LET code_up == Upper(code)
    IN  IF code_up \in {"MONTHLY", "M"} THEN "M"
        ELSE IF code_up \in {"QUARTERLY", "Q"} THEN "Q"
        ELSE IF code_up \in {"WEEKLY", "W"} THEN "W"
        ELSE IF code_up \in {"ANNUAL", "A", "Y"} THEN "A"
        ELSE IF code_up \in {"DAILY", "D"} THEN "D"
        ELSE "ValueError"

\* what a call gives back: the exception it raised, or "none" and the tuple
Raise(e) ==
    [exc |-> e, latest_date |-> NaT, values |-> <<>>,
     current_period |-> NaT, latest_dates |-> <<>>]

Return(latest_date, vals, current_period, latest_dates) ==
    [exc |-> "none", latest_date |-> latest_date, values |-> vals,
     current_period |-> current_period, latest_dates |-> latest_dates]

\* (variant of LastValidPos: the last row whether or not it holds a value)
LastValidPosLastRow(cells) == Len(cells)

\* values[ticker].last_valid_index() followed by index.get_loc(...): the
\* (1-based) row of the last non-missing cell; 0 stands for None, on which
\* get_loc raises KeyError
LastValidPos(cells) ==
    LET J == {j \in 1..Len(cells) : ~IsNull(cells[j])}
    IN  IF J = {} THEN 0 ELSE Max(J)

\* isinstance(idx, pd.DatetimeIndex) or is_datetime64_any_dtype(idx) on the
\* index _load_csv gave the table: read_csv(index_col=0, parse_dates=True)
\* yields a DatetimeIndex when the first column of the file holds dates, an
\* integer index when it holds row numbers
IsDatetimeIndex(v) == v.index_dtype = "datetime64[ns]"

\* Series.tail(n)
TailN(s, n) == SubSeq(s, Max({1, Len(s) - n + 1}), Len(s))

\* Series.dropna()
DropNa(s) == SelectSeq(s, LAMBDA x : ~IsNull(x))

\* (variant of Window: the window ends at the last entry of the cut series
\* that is not missing)
WindowToLastValid(cells, last_pos, n_lags) ==
    SubSeq(cells, Max({1, LastValidPos(cells) - n_lags}), LastValidPos(cells))

\* value_col.iloc[start_pos : last_pos + 1] with start_pos = max(0, last_pos - n_lags)
Window(cells, last_pos, n_lags) ==
    SubSeq(cells, Max({1, last_pos - n_lags}), last_pos)

\* (variant of PctChange: the ratio without the subtraction of 1)
PctChangeRatio(cells, n) ==
    [j \in 1..Len(cells) |-> IF j <= n THEN NaN ELSE FDiv(cells[j], cells[j - n])]

\* Series.pct_change(n, fill_method=None): cells / cells.shift(n) - 1
PctChange(cells, n) ==
    [j \in 1..Len(cells) |->
        IF j <= n THEN NaN ELSE FSub(FDiv(cells[j], cells[j - n]), Num(1))]

\* Series.diff(n): cells - cells.shift(n)
Diff(cells, n) ==
    [j \in 1..Len(cells) |-> IF j <= n THEN NaN ELSE FSub(cells[j], cells[j - n])]

\* (variant of GetData: a ticker without a column is looked up like one
\* whose column is empty)
GetDataWithoutColumnCheck(v, d, ticker, f) ==
    LET period_code == NormalizeFreq(f)
    IN  IF period_code = "ValueError"
        THEN Raise("ValueError: Unsupported frequency")
        ELSE LET cells    == IF ticker \in Range(v.columns) THEN v.data[ticker]
                             ELSE <<>>
                 last_pos == LastValidPos(cells)
             IN  IF last_pos = 0 THEN Raise("KeyError: None")
                 ELSE Return(d.data[ticker][last_pos], v.data[ticker],
                             v.index[last_pos], d.data[ticker])

\* GetData of generate_html.py, on the tables of the frequency stored
GetData(v, d, ticker, f) ==
    LET period_code == NormalizeFreq(f)
    IN  IF period_code = "ValueError"
        THEN Raise("ValueError: Unsupported frequency")
        ELSE IF ticker \notin Range(v.columns)
        THEN Raise("KeyError: Ticker not found")
        ELSE LET last_pos == LastValidPos(v.data[ticker])
             IN  IF last_pos = 0 THEN Raise("KeyError: None")
                 ELSE Return(d.data[ticker][last_pos], v.data[ticker],
                             v.index[last_pos], d.data[ticker])

\* GetLevel of generate_html.py
GetLevel(v, d, ticker, f, n_lags) ==
    TheOne({
        IF g.exc # "none" THEN g
        ELSE TheOne({
               IF NormalizeFreq(f) = "D"
               THEN Return(g.latest_date,
                           TailN(DropNa(SubSeq(g.values, 1, last_pos)), n_lags + 1),
                           g.current_period, TailN(g.latest_dates, n_lags + 1))
               ELSE Return(g.latest_date, Window(g.values, last_pos, n_lags),
                           g.current_period, TailN(g.latest_dates, n_lags + 1)) :
               last_pos \in {LastValidPos(g.values)} }) :
        g \in {GetData(v, d, ticker, f)} })

\* offset_map of generate_html.py; "None" when the pair has no entry
OffsetMap(freq_code, agg_code) ==
    CASE freq_code = "M" /\ agg_code = "A" -> [unit |-> "months", n |-> 12]
      [] freq_code = "M" /\ agg_code = "Q" -> [unit |-> "months", n |-> 3]
      [] freq_code = "Q" /\ agg_code = "A" -> [unit |-> "months", n |-> 12]
      [] freq_code = "W" /\ agg_code = "A" -> [unit |-> "weeks", n |-> 52]
      [] freq_code = "D" /\ agg_code = "A" -> [unit |-> "years", n |-> 1]
      [] OTHER -> [unit |-> "None", n |-> 0]

\* Timestamp + DateOffset(months=n | weeks=n | years=n)
AddOffset(t, offset) ==
    CASE offset.unit = "months" -> AddMonths(t, offset.n)
      [] offset.unit = "weeks" -> t + 7 * offset.n
      [] offset.unit = "years" -> AddMonths(t, 12 * offset.n)

\* value_col.shift(freq=offset): the index moved forward by the offset
RECURSIVE ShiftIndex(_, _)
ShiftIndex(index, offset) ==
    IF index = <<>> THEN <<>>
    ELSE <<AddOffset(Head(index), offset)>> \o ShiftIndex(Tail(index), offset)

\* shifted.reindex(value_col.index): per label of index the cell of the
\* shifted series that carries it, NaN where none does (shifted is unique)
Reindex(shifted, cells, index) ==
    [j \in 1..Len(index) |->
        IF \E k \in 1..Len(shifted) : shifted[k] = index[j]
        THEN cells[CHOOSE k \in 1..Len(shifted) : shifted[k] = index[j]]
        ELSE NaN]

\* the calendar branch shared by both GetDelta: prev by DateOffset, then
\* (value - prev) / prev or value - prev; reindex raises ValueError when two
\* shifted labels coincide
CalendarDelta(index, cells, offset, pct) ==
    LET shifted == ShiftIndex(index, offset)
    IN  IF Cardinality(Range(shifted)) < Len(shifted)
        THEN [exc |-> "ValueError: cannot reindex on an axis with duplicate labels",
              result |-> <<>>]
        ELSE LET prev == Reindex(shifted, cells, index)
             IN  [exc |-> "none",
                  result |-> [j \in 1..Len(index) |->
                                IF pct
                                THEN FDiv(FSub(cells[j], prev[j]), prev[j])
                                ELSE FSub(cells[j], prev[j])]]

\* (variant of IntShift: a year of quarterly rows counted as 12 rows)
IntShiftYearOfTwelve(freq_code, agg_code) ==
    CASE freq_code = "M" /\ agg_code = "A" -> 12
      [] freq_code = "M" /\ agg_code = "Q" -> 3
      [] freq_code = "Q" /\ agg_code = "A" -> 12
      [] OTHER -> 0

\* int_shift of generate_html.py; 0 stands for None
IntShift(freq_code, agg_code) ==
    CASE freq_code = "M" /\ agg_code = "A" -> 12
      [] freq_code = "M" /\ agg_code = "Q" -> 3
      [] freq_code = "Q" /\ agg_code = "A" -> 4
      [] OTHER -> 0

\* GetDelta of generate_html.py
GetDelta(v, d, ticker, f, agg_freq, n_lags, pct) ==
    LET freq_code == NormalizeFreq(f)
        agg_code  == NormalizeFreq(agg_freq)
    IN  IF freq_code = "ValueError" \/ agg_code = "ValueError"
        THEN Raise("ValueError: Unsupported frequency")
        ELSE
        TheOne({
          IF g.exc # "none" THEN g
          ELSE TheOne({
            IF agg_code = freq_code
            THEN TheOne({ Return(g.latest_date, Window(result, last_pos, n_lags),
                                 g.current_period, latest_dates) :
                          result \in {IF pct THEN PctChange(g.values, 1)
                                      ELSE Diff(g.values, 1)} })
            ELSE IF IsDatetimeIndex(v)
            THEN TheOne({
                   IF offset.unit = "None"
                   THEN Raise("ValueError: Unsupported conversion")
                   ELSE TheOne({
                          IF r.exc # "none" THEN Raise(r.exc)
                          ELSE Return(g.latest_date, Window(r.result, last_pos, n_lags),
                                      g.current_period, latest_dates) :
                          r \in {CalendarDelta(v.index, g.values, offset, pct)} }) :
                   offset \in {OffsetMap(freq_code, agg_code)} })
            ELSE TheOne({
                   IF int_shift = 0
                   THEN Raise("ValueError: Unsupported conversion")
                   ELSE TheOne({ Return(g.latest_date, Window(result, last_pos, n_lags),
                                        g.current_period, latest_dates) :
                                 result \in {IF pct THEN PctChange(g.values, int_shift)
                                             ELSE Diff(g.values, int_shift)} }) :
                   int_shift \in {IntShift(freq_code, agg_code)} }) :
            last_pos \in {LastValidPos(g.values)},
            latest_dates \in {TailN(g.latest_dates, n_lags + 1)} }) :
          g \in {GetData(v, d, ticker, freq_code)} })

\* GetData of TemplateUpdate-GitDeploy.py: latest_date and value_col only
TemplateUpdate_GetData(v, d, ticker, f, n_lags) ==
    LET period_code == NormalizeFreq(f)
    IN  IF period_code = "ValueError"
        THEN Raise("ValueError: Unsupported frequency")
        ELSE IF ticker \notin Range(v.columns)
        THEN Raise("KeyError: Ticker not found")
        ELSE LET last_pos == LastValidPos(v.data[ticker])
             IN  IF last_pos = 0 THEN Raise("KeyError: None")
                 ELSE Return(d.data[ticker][last_pos], v.data[ticker], NaT, <<>>)

\* GetLevel of TemplateUpdate-GitDeploy.py: one window rule for every frequency
TemplateUpdate_GetLevel(v, d, ticker, f, n_lags) ==
    TheOne({
        IF g.exc # "none" THEN g
        ELSE Return(g.latest_date, Window(g.values, LastValidPos(g.values), n_lags),
                    NaT, <<>>) :
        g \in {TemplateUpdate_GetData(v, d, ticker, f, n_lags)} })

\* the if-chain of TemplateUpdate's GetDelta that chooses the DateOffset
TemplateUpdate_Offset(freq_code, agg_code) ==
    IF freq_code = "M" /\ agg_code = "A" THEN [unit |-> "months", n |-> 12]
    ELSE IF freq_code = "M" /\ agg_code = "Q" THEN [unit |-> "months", n |-> 3]
    ELSE IF freq_code = "Q" /\ agg_code = "A" THEN [unit |-> "months", n |-> 12]
    ELSE IF freq_code = "Q" /\ agg_code = "M" THEN [unit |-> "None", n |-> 0]
    ELSE IF freq_code = "W" /\ agg_code = "A" THEN [unit |-> "weeks", n |-> 52]
    ELSE IF freq_code = "D" /\ agg_code = "A" THEN [unit |-> "years", n |-> 1]
    ELSE [unit |-> "None", n |-> 0]

\* _INT_SHIFT_TABLE.get(key, None) and the fallback if-chain; 0 stands for
\* the ValueError of the final else
TemplateUpdate_IntShift(freq_code, agg_code) ==
    CASE freq_code = "M" /\ agg_code = "A" -> 12
      [] freq_code = "M" /\ agg_code = "Q" -> 3
      [] freq_code = "Q" /\ agg_code = "A" -> 4
      [] freq_code = agg_code -> 1
      [] OTHER -> 0

\* GetDelta of TemplateUpdate-GitDeploy.py
TemplateUpdate_GetDelta(v, d, ticker, f, agg_freq, n_lags, pct) ==
    LET freq_code == NormalizeFreq(f)
        agg_code  == NormalizeFreq(agg_freq)
    IN  IF freq_code = "ValueError" \/ agg_code = "ValueError"
        THEN Raise("ValueError: Unsupported frequency")
        ELSE
        TheOne({
          IF g.exc # "none" THEN g
          ELSE TheOne({
            IF agg_code = freq_code
            THEN TheOne({ Return(g.latest_date, Window(result, last_pos, n_lags),
                                 NaT, <<>>) :
                          result \in {IF pct THEN PctChange(g.values, 1)
                                      ELSE Diff(g.values, 1)} })
            ELSE IF IsDatetimeIndex(v)
            THEN TheOne({
                   IF offset.unit = "None"
                   THEN Raise("ValueError: Unsupported conversion")
                   ELSE TheOne({
                          IF r.exc # "none" THEN Raise(r.exc)
                          ELSE Return(g.latest_date, Window(r.result, last_pos, n_lags),
                                      NaT, <<>>) :
                          r \in {CalendarDelta(v.index, g.values, offset, pct)} }) :
                   offset \in {TemplateUpdate_Offset(freq_code, agg_code)} })
            ELSE TheOne({
                   IF shift = 0
                   THEN Raise("ValueError: Unsupported conversion")
                   ELSE TheOne({ Return(g.latest_date, Window(result, last_pos, n_lags),
                                        NaT, <<>>) :
                                 result \in {IF pct THEN PctChange(g.values, shift)
                                             ELSE Diff(g.values, shift)} }) :
                   shift \in {TemplateUpdate_IntShift(freq_code, agg_code)} }) :
            last_pos \in {LastValidPos(g.values)} }) :
          g \in {TemplateUpdate_GetData(v, d, ticker, freq_code, n_lags)} })

\* [None] * k
RECURSIVE Nones(_)
Nones(k) == IF k <= 0 THEN <<>> ELSE <<None>> \o Nones(k - 1)

\* one pass of the loop of build_section for an indicator whose units were
\* parsed to (is_delta, agg_code, is_pct): the call, the except branch, and
\* the left padding of a short window to n_lags + 1 entries
BuildSectionRow(v, d, ticker, f, is_delta, agg_code, is_pct, n_lags) ==
    TheOne({
        IF r.exc # "none"
        THEN [error |-> r.exc, vals |-> <<>>, latest_date |-> NaT, period |-> NaT]
        ELSE [error |-> "none",
              vals  |-> IF Len(r.values) < n_lags + 1
                        THEN Nones(n_lags + 1 - Len(r.values)) \o r.values
                        ELSE r.values,
              latest_date |-> r.latest_date,
              period |-> r.current_period] :
        r \in {IF is_delta /\ agg_code # "None"
               THEN GetDelta(v, d, ticker, f, agg_code, n_lags, is_pct)
               ELSE GetLevel(v, d, ticker, f, n_lags)} })

\* ------------------------------------------------ the report's queries
\* Largest n_lags a query is made with.
MaxLags == 2

\* the ticker whose column the stored table of a frequency holds
StoredTicker(f) ==
    CASE f = "M" -> "PCEPI"
      [] f = "Q" -> "GDPC1"
      [] f = "W" -> "ICSA"
      [] f = "D" -> "DFF"
      [] f = "A" -> "GDPC1"

\* the periods a stored table may have rows for (at least one): per
\* frequency four period starts with a gap, among them a period together with the one a year
\* (for months also a quarter) before it; the days include a leap day
QueryPeriods(f) ==
    CASE f = "M" -> {ToDay(2024, 1, 1), ToDay(2024, 2, 1), ToDay(2024, 4, 1),
                     ToDay(2025, 1, 1)}
      [] f = "Q" -> {ToDay(2024, 1, 1), ToDay(2024, 4, 1), ToDay(2025, 1, 1),
                     ToDay(2025, 4, 1)}
      [] f = "W" -> {0, 7, 364, 371}
      [] f = "D" -> {ToDay(2024, 2, 28), ToDay(2024, 2, 29), ToDay(2025, 2, 28),
                     ToDay(2025, 3, 1)}
      [] f = "A" -> {ToDay(2024, 1, 1), ToDay(2025, 1, 1), ToDay(2026, 1, 1),
                     ToDay(2027, 1, 1)}

\* the value row j holds when it holds one that is not zero: 100, 110, 121, ...
Level(j) ==
    IF j = 1 THEN Num(100) ELSE IF j = 2 THEN Num(110) ELSE Num(110 + 11 * (j - 2))

\* a cell of the values table: missing, zero or the level of its row
Cell(j, pick) == IF pick = 0 THEN NaN ELSE IF pick = 1 THEN Num(0) ELSE Level(j)

\* the tables Fetch leaves for ticker t on the index: the values as picked,
\* and per row with a value a release timestamp 20 days after the period start
StoreOf(t, index, pick) ==
    LET cells == [j \in 1..Len(index) |-> Cell(j, pick[j])]
    IN  [values |-> [index |-> index, columns |-> <<t>>, data |-> [u \in {t} |-> cells],
                     index_dtype |-> "datetime64[ns]"],
         dates  |-> [index |-> index, columns |-> <<t>>,
                     data |-> [u \in {t} |->
                                 [j \in 1..Len(index) |->
                                     IF IsNull(cells[j]) THEN NaT ELSE index[j] + 20]],
                     index_dtype |-> "datetime64[ns]"]]

\* thirteen consecutive months from 2024-01 with the values 100, 101, ..., 112
RECURSIVE MonthsFrom(_, _)
MonthsFrom(t, k) == IF k = 0 THEN <<>> ELSE <<t>> \o MonthsFrom(AddMonths(t, 1), k - 1)

ThirteenMonths ==
    LET index == MonthsFrom(ToDay(2024, 1, 1), 13)
    IN  [values |-> [index |-> index, columns |-> <<"PCEPI">>,
                     data |-> [u \in {"PCEPI"} |-> [j \in 1..13 |-> Num(99 + j)]],
                     index_dtype |-> "datetime64[ns]"],
         dates  |-> [index |-> index, columns |-> <<"PCEPI">>,
                     data |-> [u \in {"PCEPI"} |-> [j \in 1..13 |-> index[j] + 20]],
                     index_dtype |-> "datetime64[ns]"]]

\* 0, 1, ..., k - 1
RECURSIVE RowNumbers(_)
RowNumbers(k) == IF k = 0 THEN <<>> ELSE Append(RowNumbers(k - 1), k - 1)

\* tables whose files carry row numbers instead of dates in their first
\* column: thirteen rows with the values 100, 101, ..., 112 for ticker t,
\* the first cell as picked (missing, zero or 100), every release
\* timestamp 2025-05-25
ThirteenRows(t, pick) ==
    LET index == RowNumbers(13)
    IN  [values |-> [index |-> index, columns |-> <<t>>,
                     data |-> [u \in {t} |->
                                 [j \in 1..13 |->
                                     IF j = 1 THEN Cell(1, pick) ELSE Num(99 + j)]],
                     index_dtype |-> "int64"],
         dates  |-> [index |-> index, columns |-> <<t>>,
                     data |-> [u \in {t} |-> [j \in 1..13 |-> ToDay(2025, 5, 25)]],
                     index_dtype |-> "int64"]]

\* the tickers a query names: the stored one and one that is in no table
QueryTickers == {StoredTicker(freq), "UNKNOWN"}

AggTokens == {"M", "Q", "W", "A", "D"}

\* what _parse_units yields for the units texts of the indicator lists:
\* a level, or a delta with the aggregation letter M, Q or Y and % or not
ParsedUnits ==
    {[is_delta |-> FALSE, agg_code |-> "None", is_pct |-> FALSE]}
        \cup {[is_delta |-> TRUE, agg_code |-> a, is_pct |-> b] :
                a \in {"M", "Q", "A"}, b \in BOOLEAN}

InitQuery ==
    /\ pc = "serving"
    /\ \E f \in {"M", "Q", "W", "D", "A"} :
         /\ freq = f
         /\ ticker_list = <<StoredTicker(f)>>
         /\ \/ \E I \in (SUBSET QueryPeriods(f)) \ {{}} :
                 \E pick \in [1..Cardinality(I) -> 0..2] :
                   LET s == StoreOf(StoredTicker(f), SortedSeq(I), pick)
                   IN  values = s.values /\ dates = s.dates
            \/ /\ f = "M"
               /\ values = ThirteenMonths.values
               /\ dates = ThirteenMonths.dates
            \/ \E pick \in 0..2 :
                 LET s == ThirteenRows(StoredTicker(f), pick)
                 IN  values = s.values /\ dates = s.dates
    /\ warning_list = <<>>
    /\ source = <<>>
    /\ call = NoCall

\* GetLevel(ticker, freq, n_lags) of generate_html.py
GetLevelCall(t, n) ==
    /\ pc = "serving"
    /\ pc' = "returned"
    /\ call' = [op |-> "GetLevel", ticker |-> t, agg_freq |-> freq, n_lags |-> n,
                pct |-> FALSE, result |-> GetLevel(values, dates, t, freq, n)]
    /\ UNCHANGED <<freq, ticker_list, warning_list, source, values, dates>>

\* GetDelta(ticker, freq, agg_freq, n_lags, pct) of generate_html.py
GetDeltaCall(t, a, n, b) ==
    /\ pc = "serving"
    /\ pc' = "returned"
    /\ call' = [op |-> "GetDelta", ticker |-> t, agg_freq |-> a, n_lags |-> n,
                pct |-> b, result |-> GetDelta(values, dates, t, freq, a, n, b)]
    /\ UNCHANGED <<freq, ticker_list, warning_list, source, values, dates>>

\* GetLevel(ticker, freq, n_lags) of TemplateUpdate-GitDeploy.py
TemplateUpdate_GetLevelCall(t, n) ==
    /\ pc = "serving"
    /\ pc' = "returned"
    /\ call' = [op |-> "TemplateUpdate_GetLevel", ticker |-> t, agg_freq |-> freq,
                n_lags |-> n, pct |-> FALSE,
                result |-> TemplateUpdate_GetLevel(values, dates, t, freq, n)]
    /\ UNCHANGED <<freq, ticker_list, warning_list, source, values, dates>>

\* GetDelta(ticker, freq, agg_freq, n_lags, pct) of TemplateUpdate-GitDeploy.py
TemplateUpdate_GetDeltaCall(t, a, n, b) ==
    /\ pc = "serving"
    /\ pc' = "returned"
    /\ call' = [op |-> "TemplateUpdate_GetDelta", ticker |-> t, agg_freq |-> a,
                n_lags |-> n, pct |-> b,
                result |-> TemplateUpdate_GetDelta(values, dates, t, freq, a, n, b)]
    /\ UNCHANGED <<freq, ticker_list, warning_list, source, values, dates>>

\* one row of build_section(indicators, n_lags)
BuildSectionRowCall(t, u, n) ==
    /\ pc = "serving"
    /\ pc' = "returned"
    /\ call' = [op |-> "build_section", ticker |-> t, agg_freq |-> u.agg_code,
                n_lags |-> n, pct |-> u.is_pct, is_delta |-> u.is_delta,
                result |-> BuildSectionRow(values, dates, t, freq, u.is_delta,
                                           u.agg_code, u.is_pct, n)]
    /\ UNCHANGED <<freq, ticker_list, warning_list, source, values, dates>>

\* a query is made of the tables as they stand; each behaviour makes one
NextQuery ==
    \/ /\ pc = "serving"
       /\ \E t \in QueryTickers, n \in 0..MaxLags : GetLevelCall(t, n)
    \/ /\ pc = "serving"
       /\ \E t \in QueryTickers, a \in AggTokens, n \in 0..MaxLags, b \in BOOLEAN :
            GetDeltaCall(t, a, n, b)
    \/ /\ pc = "serving"
       /\ \E t \in QueryTickers, n \in 0..MaxLags : TemplateUpdate_GetLevelCall(t, n)
    \/ /\ pc = "serving"
       /\ \E t \in QueryTickers, a \in AggTokens, n \in 0..MaxLags, b \in BOOLEAN :
            TemplateUpdate_GetDeltaCall(t, a, n, b)
    \/ /\ pc = "serving"
       /\ \E t \in QueryTickers, u \in ParsedUnits, n \in 0..MaxLags :
            BuildSectionRowCall(t, u, n)

SpecQuery == InitQuery /\ [][NextQuery]_vars

\* --------------------------------------------------- queries: the claims
Returned(ops) == pc = "returned" /\ call.op \in ops

\* the column of the stored ticker
Column == values.data[StoredTicker(freq)]

\* the rows of the stored ticker's column that hold a value
ValidRows == {j \in 1..Len(Column) : ~IsNull(Column[j])}

\* the pairs of distinct frequencies GetDelta converts on a calendar index
CalendarPairs ==
    {<<"M", "A">>, <<"M", "Q">>, <<"Q", "A">>, <<"W", "A">>, <<"D", "A">>}

\* the query is one the extractor supports: a level, a same-frequency delta
\* or a delta over one of the calendar pairs
IsSupported(f, is_delta, agg) ==
    (is_delta /\ agg # "None") => (agg = f \/ <<f, agg>> \in CalendarPairs)

\* x is the rational num / den
EqRat(x, num, den) == x.k = "num" /\ x.n * den = x.d * num

\* x is the delta of the value a over its predecessor b as the text states
\* it: a - b, or (a - b) / b in percent mode; missing when a or b is
IsDeltaOf(x, a, b, pct) ==
    IF IsNull(a) \/ IsNull(b) THEN IsNull(x)
    ELSE IF pct THEN EqRat(x, a.n * b.d - b.n * a.d, b.n * a.d)
    ELSE EqRat(x, a.n * b.d - b.n * a.d, a.d * b.d)

\* C6: for the ticker of the store and every n_lags, a row of the report
\* built from GetLevel or from a supported GetDelta carries a window of
\* exactly n_lags + 1 entries and the call does not fail.
C6_WindowOfLagDepthPlusOne ==
    ( /\ Returned({"build_section"})
      /\ call.ticker \in Range(values.columns)
      /\ IsSupported(freq, call.is_delta, call.agg_freq) ) =>
        /\ call.result.error = "none"
        /\ Len(call.result.vals) = call.n_lags + 1

\* (not a claim) what holds instead: when the column holds a value, the
\* index is a calendar one and the query is not the Daily to Annual delta,
\* the row has n_lags + 1 entries,
\* None on the left of the rows up to the last value
WindowPaddedWhenValuePresent ==
    ( /\ Returned({"build_section"})
      /\ call.ticker \in Range(values.columns)
      /\ IsSupported(freq, call.is_delta, call.agg_freq)
      /\ ValidRows # {}
      /\ IsDatetimeIndex(values)
      /\ ~(call.is_delta /\ freq = "D" /\ call.agg_freq = "A") ) =>
        /\ call.result.error = "none"
        /\ Len(call.result.vals) = call.n_lags + 1
        /\ \A i \in 1..(call.n_lags + 1) :
             (call.result.vals[i] = None) <=>
               (i <= call.n_lags + 1 - Cardinality(
                        {j \in 1..Max(ValidRows) :
                            freq = "D" /\ ~call.is_delta => j \in ValidRows}))

\* C7: the window GetLevel returns (either implementation) is in
\* chronological order, oldest first: its entries are cells of rows that
\* ascend; its last entry is the cell of the last row that holds a value;
\* and the timestamp returned is the dates-table cell of that ticker at
\* that row.
C7_LevelWindowChronological ==
    ( Returned({"GetLevel", "TemplateUpdate_GetLevel"})
      /\ call.result.exc = "none" ) =>
        LET w    == call.result.values
            last == Max(ValidRows)
        IN  /\ ValidRows # {}
            /\ Len(w) >= 1
            /\ w[Len(w)] = Column[last]
            /\ ~IsNull(w[Len(w)])
            /\ \E row \in [1..Len(w) -> 1..last] :
                 /\ row[Len(w)] = last
                 /\ \A i \in 1..(Len(w) - 1) : row[i] < row[i + 1]
                 /\ \A i \in 1..Len(w) : w[i] = Column[row[i]]
            /\ call.result.latest_date = dates.data[call.ticker][last]

\* C7 witness: GetLevel returned a window of several entries from a column
\* whose newest rows hold no value.
C7_Witness ==
    /\ Returned({"GetLevel", "TemplateUpdate_GetLevel"})
    /\ call.result.exc = "none"
    /\ Len(call.result.values) >= 2
    /\ ValidRows # {}
    /\ Max(ValidRows) < Len(Column)
    /\ call.result.latest_date = values.index[Max(ValidRows)] + 20

\* C8: for the Daily frequency GetLevel (either implementation) returns the
\* trailing n_lags + 1 values that are not missing, so that a ticker with
\* at least n_lags + 1 values gets a window of n_lags + 1 entries none of
\* which is missing.
C8_DailyWindowHasNoMissing ==
    ( /\ Returned({"GetLevel", "TemplateUpdate_GetLevel"})
      /\ freq = "D"
      /\ call.ticker \in Range(values.columns)
      /\ Cardinality(ValidRows) >= call.n_lags + 1 ) =>
        /\ call.result.exc = "none"
        /\ Len(call.result.values) = call.n_lags + 1
        /\ \A i \in 1..Len(call.result.values) : ~IsNull(call.result.values[i])

\* (not a claim) the GetLevel of generate_html.py does so
DailyWindowDropsMissing ==
    ( /\ Returned({"GetLevel"})
      /\ freq = "D"
      /\ call.ticker \in Range(values.columns)
      /\ Cardinality(ValidRows) >= call.n_lags + 1 ) =>
        /\ call.result.exc = "none"
        /\ Len(call.result.values) = call.n_lags + 1
        /\ \A i \in 1..Len(call.result.values) : ~IsNull(call.result.values[i])

\* C9: when the aggregation frequency is the native one, the delta of row t
\* is value[t] - value[t-1] in level mode and (value[t] - value[t-1]) /
\* value[t-1] in percent mode (for a predecessor that is not zero), the
\* first row's delta is missing, and the window holds the deltas of the
\* rows up to the last value; [100, 110, 121] in percent mode gives
\* [missing, 1/10, 1/10].
C9_SameFrequencyDelta ==
    ( /\ Returned({"GetDelta", "TemplateUpdate_GetDelta"})
      /\ call.result.exc = "none"
      /\ NormalizeFreq(call.agg_freq) = NormalizeFreq(freq) ) =>
        LET w     == call.result.values
            last  == Max(ValidRows)
            first == last - Len(w) + 1
        IN  /\ Len(w) = IF last > call.n_lags THEN call.n_lags + 1 ELSE last
            /\ \A i \in 1..Len(w) :
                 LET t == first + i - 1
                 IN  IF t = 1 THEN IsNull(w[i])
                     ELSE (call.pct /\ Column[t - 1] = Num(0))
                          \/ IsDeltaOf(w[i], Column[t], Column[t - 1], call.pct)
            /\ ( /\ Column = <<Num(100), Num(110), Num(121)>>
                 /\ call.pct /\ call.n_lags = 2 ) =>
                   w = <<NaN, Frac(1, 10), Frac(1, 10)>>

\* C9 witness: the percent deltas of the column [100, 110, 121] at its own
\* frequency, with the whole column in the window.
C9_Witness ==
    /\ Returned({"GetDelta", "TemplateUpdate_GetDelta"})
    /\ call.result.exc = "none"
    /\ freq = "M"
    /\ call.agg_freq = freq
    /\ call.pct
    /\ call.n_lags = 2
    /\ Column = <<Num(100), Num(110), Num(121)>>
    /\ call.result.values = <<NaN, Frac(1, 10), Frac(1, 10)>>

\* the period q lies exactly one aggregation period before the period p:
\* 12 or 3 months, 52 weeks, or 1 year (same day of the month, the last day
\* of the month where the month is shorter)
IsOnePeriodBefore(q, p, f, agg) ==
    LET months == IF f = "M" /\ agg = "Q" THEN 3 ELSE 12
    IN  IF f = "W" THEN p - q = 7 * 52
        ELSE /\ (YearOf(p) * 12 + MonthOf(p)) - (YearOf(q) * 12 + MonthOf(q)) = months
             /\ DayOf(q) = Min({DayOf(p), DaysInMonth(YearOf(q), MonthOf(q))})

\* the delta window of the call holds, for the rows up to the last value,
\* the delta over the value stored at exactly one aggregation period before
\* the row's period, missing if the index has no such period
HasCalendarPredecessors ==
    /\ call.result.exc = "none"
    /\ LET w     == call.result.values
           last  == Max(ValidRows)
           first == last - Len(w) + 1
       IN  /\ Len(w) = IF last > call.n_lags THEN call.n_lags + 1 ELSE last
           /\ \A i \in 1..Len(w) :
                LET t == first + i - 1
                    Q == {k \in 1..Len(values.index) :
                            IsOnePeriodBefore(values.index[k], values.index[t],
                                              freq, call.agg_freq)}
                IN  IF Q = {} THEN IsNull(w[i])
                    ELSE \A k \in Q :
                           (call.pct /\ Column[k] = Num(0))
                           \/ IsDeltaOf(w[i], Column[t], Column[k], call.pct)

\* C10: for a delta across frequencies on the calendar index (Monthly to
\* Annual, Monthly to Quarterly, Quarterly to Annual, Weekly to Annual,
\* Daily to Annual) the predecessor of the value at period p is the value
\* stored at exactly p minus one aggregation period, and the delta is
\* missing if that period is not in the index; of the thirteen monthly
\* values 100..112 the 13th has the level delta 12.
C10_CalendarOffsetPredecessor ==
    ( /\ Returned({"GetDelta", "TemplateUpdate_GetDelta"})
      /\ call.ticker \in Range(values.columns)
      /\ ValidRows # {}
      /\ IsDatetimeIndex(values)
      /\ <<freq, call.agg_freq>> \in CalendarPairs ) =>
        /\ HasCalendarPredecessors
        /\ (values = ThirteenMonths.values /\ call.agg_freq = "A" /\ ~call.pct) =>
              call.result.values[Len(call.result.values)] = Num(12)

\* (not a claim) the predecessor is the one the calendar gives for every
\* pair but Daily to Annual
CalendarPredecessorUnlessDaily ==
    ( /\ Returned({"GetDelta", "TemplateUpdate_GetDelta"})
      /\ call.ticker \in Range(values.columns)
      /\ ValidRows # {}
      /\ IsDatetimeIndex(values)
      /\ <<freq, call.agg_freq>> \in CalendarPairs
      /\ freq # "D" ) =>
        /\ HasCalendarPredecessors
        /\ (values = ThirteenMonths.values /\ call.agg_freq = "A" /\ ~call.pct) =>
              call.result.values[Len(call.result.values)] = Num(12)

\* C11: GetDelta (either implementation) with the native frequency
\* Quarterly and the aggregation frequency Monthly fails with the
\* unsupported-conversion error for every input: every ticker, known or not,
\* every n_lags, percent and level mode.  (Stated for the tickers that
\* are not stored or whose column holds a value.)
C11_QuarterlyToMonthlyUnsupported ==
    ( /\ Returned({"GetDelta", "TemplateUpdate_GetDelta"})
      /\ freq = "Q"
      /\ NormalizeFreq(call.agg_freq) = "M"
      /\ (call.ticker \in Range(values.columns) => ValidRows # {}) ) =>
        call.result.exc = "ValueError: Unsupported conversion"

\* (not a claim) it does so for a ticker whose column holds a value
QuarterlyToMonthlyUnsupportedWhenValuePresent ==
    ( /\ Returned({"GetDelta", "TemplateUpdate_GetDelta"})
      /\ freq = "Q"
      /\ NormalizeFreq(call.agg_freq) = "M"
      /\ call.ticker \in Range(values.columns)
      /\ ValidRows # {} ) =>
        call.result.exc = "ValueError: Unsupported conversion"

\* the fixed row offset of a pair of distinct frequencies; 0 for the pairs
\* that have none
RowOffset(f, agg) ==
    IF f = "M" /\ agg = "A" THEN 12
    ELSE IF f = "M" /\ agg = "Q" THEN 3
    ELSE IF f = "Q" /\ agg = "A" THEN 4
    ELSE 0

\* C12: on a table whose index is not a calendar one, GetDelta (either
\* implementation) for distinct frequencies takes the predecessor 12 rows
\* back for Monthly to Annual, 3 rows back for Monthly to Quarterly and 4
\* rows back for Quarterly to Annual (missing for the first rows), and
\* fails with the unsupported-conversion error for every other pair,
\* Weekly to Annual and Daily to Annual included.
C12_IntegerRowOffsets ==
    ( /\ Returned({"GetDelta", "TemplateUpdate_GetDelta"})
      /\ ~IsDatetimeIndex(values)
      /\ call.ticker \in Range(values.columns)
      /\ ValidRows # {}
      /\ NormalizeFreq(call.agg_freq) # freq ) =>
        LET k == RowOffset(freq, NormalizeFreq(call.agg_freq))
        IN  IF k = 0
            THEN call.result.exc = "ValueError: Unsupported conversion"
            ELSE /\ call.result.exc = "none"
                 /\ LET w     == call.result.values
                        last  == Max(ValidRows)
                        first == last - Len(w) + 1
                    IN  /\ Len(w) = IF last > call.n_lags THEN call.n_lags + 1 ELSE last
                        /\ \A i \in 1..Len(w) :
                             LET t == first + i - 1
                             IN  IF t <= k THEN IsNull(w[i])
                                 ELSE (call.pct /\ Column[t - k] = Num(0))
                                      \/ IsDeltaOf(w[i], Column[t], Column[t - k],
                                                   call.pct)

\* C12 witness: the level deltas Monthly to Annual of thirteen numbered
\* rows 100..112: the 13th is 12, the 11th and 12th have no row 12 back.
C12_Witness ==
    /\ Returned({"GetDelta", "TemplateUpdate_GetDelta"})
    /\ ~IsDatetimeIndex(values)
    /\ freq = "M" /\ call.agg_freq = "A" /\ ~call.pct /\ call.n_lags = 2
    /\ call.result.values = <<NaN, NaN, Num(12)>>

\* _fmt_value renders the cell as the empty text: val is None or a float NaN
\* (every other float, the infinite ones included, is formatted as a number)
FmtValueIsBlank(val) == val = None \/ IsNull(val)

\* the rows whose value the delta of row t is taken over: one row back at
\* the native frequency, the fixed row offset back on numbered rows, the
\* row of the period one aggregation period earlier on a calendar index
PredecessorRows(t, agg) ==
    IF agg = freq THEN {t - 1} \cap (1..Len(Column))
    ELSE IF ~IsDatetimeIndex(values)
    THEN {t - RowOffset(freq, agg)} \cap (1..Len(Column))
    ELSE {k \in 1..Len(values.index) :
            IsOnePeriodBefore(values.index[k], values.index[t], freq, agg)}

\* the delta query is one GetDelta computes: the native frequency itself, a
\* calendar pair other than Daily to Annual on a calendar index, or a pair
\* with a row offset on numbered rows
IsComputedDelta(agg) ==
    \/ agg = freq
    \/ IsDatetimeIndex(values) /\ <<freq, agg>> \in CalendarPairs /\ freq # "D"
    \/ ~IsDatetimeIndex(values) /\ RowOffset(freq, agg) # 0

\* C13: in percent mode GetDelta raises nothing, and every entry of its
\* window whose predecessor value is zero or missing is the missing marker
\* (neither infinite nor any number), in the same-frequency, the calendar
\* and the row-offset branch alike.
C13_PercentOfZeroOrMissingIsMissing ==
    ( /\ Returned({"GetDelta", "TemplateUpdate_GetDelta"})
      /\ call.pct
      /\ call.ticker \in Range(values.columns)
      /\ ValidRows # {}
      /\ IsComputedDelta(NormalizeFreq(call.agg_freq)) ) =>
        /\ call.result.exc = "none"
        /\ LET w     == call.result.values
               first == Max(ValidRows) - Len(w) + 1
           IN  \A i \in 1..Len(w) :
                 LET P == PredecessorRows(first + i - 1, NormalizeFreq(call.agg_freq))
                 IN  (\A k \in P : IsNull(Column[k]) \/ Column[k] = Num(0)) =>
                        FmtValueIsBlank(w[i])

\* (not a claim) what holds instead: the entry is missing when the
\* predecessor is missing or both values are zero, and infinite when only
\* the predecessor is zero
PercentOfZeroIsInfinite ==
    ( /\ Returned({"GetDelta", "TemplateUpdate_GetDelta"})
      /\ call.pct
      /\ call.ticker \in Range(values.columns)
      /\ ValidRows # {}
      /\ IsComputedDelta(NormalizeFreq(call.agg_freq)) ) =>
        /\ call.result.exc = "none"
        /\ LET w     == call.result.values
               first == Max(ValidRows) - Len(w) + 1
           IN  \A i \in 1..Len(w) :
                 LET t == first + i - 1
                     P == PredecessorRows(t, NormalizeFreq(call.agg_freq))
                 IN  /\ (\A k \in P : IsNull(Column[k])) => IsNull(w[i])
                     /\ \A k \in P :
                          Column[k] = Num(0) =>
                            IF IsNull(Column[t]) \/ Column[t] = Num(0)
                            THEN IsNull(w[i])
                            ELSE w[i] = PosInf

\* ================================================== the frequency tokens
\* NormalizeFreq of TemplateUpdate-GitDeploy.py; "ValueError" stands for
\* the raise
TemplateUpdate_NormalizeFreq(code) ==
    LET code_up == Upper(code)
    IN  IF code_up \in {"MONTHLY", "M"} THEN "M"
        ELSE IF code_up \in {"QUARTERLY", "Q"} THEN "Q"
        ELSE IF code_up \in {"WEEKLY", "W"} THEN "W"
        ELSE IF code_up \in {"ANNUAL", "A", "Y"} THEN "A"
        ELSE IF code_up \in {"DAILY", "D"} THEN "D"
        ELSE "ValueError"

\* the if-chain at the head of GetData of MacroDashboard-GitDeploy.py: the
\* token is compared as written and selects the prefix of the file names
MacroDashboard_PeriodCode(token) ==
    IF token \in {"MONTHLY", "M"} THEN "Monthly"
    ELSE IF token \in {"QUARTERLY", "Q"} THEN "Quarterly"
    ELSE IF token \in {"WEEKLY", "W"} THEN "Weekly"
    ELSE IF token \in {"ANNUAL", "A", "Y"} THEN "Annual"
    ELSE IF token \in {"DAILY", "D"} THEN "Daily"
    ELSE "ValueError"

\* the text of the ValueError every one of them raises: the token as given
UnsupportedFrequency(token) == <<"Unsupported frequency: ", token>>

\* the tokens callers may write: every accepted letter and word in upper,
\* lower and capitalised spelling, Year, tokens of no frequency, the empty
\* token, and tokens with a blank around them
Tokens ==
    {"M", "m", "Q", "q", "W", "w", "A", "a", "Y", "y", "D", "d",
     "MONTHLY", "Monthly", "monthly", "QUARTERLY", "Quarterly", "quarterly",
     "WEEKLY", "Weekly", "weekly", "ANNUAL", "Annual", "annual",
     "YEAR", "Year", "year", "DAILY", "Daily", "daily",
     "X", "x", "MONTH", "Month", "month", "BIWEEKLY", "Biweekly", "biweekly", "",
     " M", " m", "monthly ", "MONTHLY "}

\* what a call with a token gives back: the code, or the error and its text
TokenResult(op, token, code) ==
    [op |-> op, token |-> token, result |-> code,
     message |-> IF code = "ValueError" THEN UnsupportedFrequency(token) ELSE <<>>]

InitTokens ==
    /\ pc = "token"
    /\ freq \in Tokens
    /\ ticker_list = <<>>
    /\ warning_list = <<>>
    /\ source = <<>>
    /\ values = EmptyFrame
    /\ dates = EmptyFrame
    /\ call = NoCall

\* NormalizeFreq(code) of generate_html.py
NormalizeFreqCall ==
    /\ pc = "token"
    /\ pc' = "normalized"
    /\ call' = TokenResult("NormalizeFreq", freq, NormalizeFreq(freq))
    /\ UNCHANGED <<freq, ticker_list, warning_list, source, values, dates>>

\* NormalizeFreq(code) of TemplateUpdate-GitDeploy.py
TemplateUpdate_NormalizeFreqCall ==
    /\ pc = "token"
    /\ pc' = "normalized"
    /\ call' = TokenResult("TemplateUpdate_NormalizeFreq", freq,
                           TemplateUpdate_NormalizeFreq(freq))
    /\ UNCHANGED <<freq, ticker_list, warning_list, source, values, dates>>

\* Fetch([], fred, freq): the ValueError, or the two empty tables
FetchTokenCall ==
    /\ pc = "token"
    /\ pc' = "normalized"
    /\ call' = TokenResult("Fetch", freq, FetchPeriodCode(freq))
    /\ IF FetchPeriodCode(freq) = "ValueError"
       THEN UNCHANGED <<values, dates>>
       ELSE LET r == Fetch(ticker_list, source, freq, warning_list)
            IN  values' = r.values /\ dates' = r.dates
    /\ UNCHANGED <<freq, ticker_list, warning_list, source>>

\* GetData(Ticker, Freq) of MacroDashboard-GitDeploy.py, up to the choice
\* of the files it reads
MacroDashboard_GetDataCall ==
    /\ pc = "token"
    /\ pc' = "normalized"
    /\ call' = TokenResult("MacroDashboard_GetData", freq,
                           MacroDashboard_PeriodCode(freq))
    /\ UNCHANGED <<freq, ticker_list, warning_list, source, values, dates>>

NextTokens ==
    \/ NormalizeFreqCall
    \/ TemplateUpdate_NormalizeFreqCall
    \/ FetchTokenCall
    \/ MacroDashboard_GetDataCall

SpecTokens == InitTokens /\ [][NextTokens]_vars

\* ----------------------------------------------------- tokens: the claims
\* the spellings the text lists for a canonical code, in upper, lower and
\* capitalised letters
Spellings(c) ==
    CASE c = "M" -> {"M", "m", "MONTHLY", "Monthly", "monthly"}
      [] c = "Q" -> {"Q", "q", "QUARTERLY", "Quarterly", "quarterly"}
      [] c = "W" -> {"W", "w", "WEEKLY", "Weekly", "weekly"}
      [] c = "A" -> {"A", "a", "Y", "y", "ANNUAL", "Annual", "annual",
                     "YEAR", "Year", "year"}
      [] c = "D" -> {"D", "d", "DAILY", "Daily", "daily"}

Codes == {"M", "Q", "W", "A", "D"}

\* the frequency an entry point took the token for: the code, which for
\* the GetData of MacroDashboard-GitDeploy.py is the file prefix's initial
CodeTaken ==
    CASE call.result = "Monthly" -> "M"
      [] call.result = "Quarterly" -> "Q"
      [] call.result = "Weekly" -> "W"
      [] call.result = "Annual" -> "A"
      [] call.result = "Daily" -> "D"
      [] OTHER -> call.result

\* C14: each of the tokens Monthly/M, Quarterly/Q, Weekly/W,
\* Annual/Year/A/Y and Daily/D, in any letter case, is taken for its one
\* canonical code by every entry point that takes a frequency token
\* (NormalizeFreq, Fetch, GetData of MacroDashboard-GitDeploy.py).
C14_TokensNormalizeAlike ==
    pc = "normalized" =>
      \A c \in Codes : freq \in Spellings(c) => CodeTaken = c

\* (not a claim) what holds instead: NormalizeFreq and Fetch take every
\* listed spelling but those of Year, and the GetData of
\* MacroDashboard-GitDeploy.py only the ones in capital letters
TokensAcceptedExceptYear ==
    pc = "normalized" =>
      \A c \in Codes :
        (freq \in Spellings(c) \ {"YEAR", "Year", "year"}
           /\ (call.op = "MacroDashboard_GetData" => Upper(freq) = freq))
          => CodeTaken = c

\* C15: for every token that is none of the accepted spellings,
\* NormalizeFreq (either implementation) fails with the unsupported-
\* frequency error and the error's text names the token as given; a token
\* that is accepted gets one of the five codes, the same from both
\* implementations, and no other token is mapped to a code by default.
C15_UnsupportedTokenFailsByName ==
    ( /\ pc = "normalized"
      /\ call.op \in {"NormalizeFreq", "TemplateUpdate_NormalizeFreq"} ) =>
        /\ (freq \notin UNION {Spellings(c) : c \in Codes}) =>
              /\ call.result = "ValueError"
              /\ call.message = <<"Unsupported frequency: ", freq>>
        /\ call.result # "ValueError" =>
              /\ call.result \in Codes
              /\ freq \in Spellings(call.result)
              /\ NormalizeFreq(freq) = TemplateUpdate_NormalizeFreq(freq)

\* C15 witness: NormalizeFreq refused a token that differs from an accepted
\* word by its ending, and named it.
C15_Witness ==
    /\ pc = "normalized"
    /\ call.op \in {"NormalizeFreq", "TemplateUpdate_NormalizeFreq"}
    /\ freq = "Month"
    /\ call.result = "ValueError"
    /\ call.message = <<"Unsupported frequency: ", "Month">>

LowerChar(c) ==
    CASE c = "T" -> "t" [] c = "Q" -> "q" [] c = "M" -> "m" [] c = "Y" -> "y"
      [] c = "D" -> "d" [] c = "A" -> "a" [] OTHER -> c

UpperChar(c) ==
    CASE c = "t" -> "T" [] c = "q" -> "Q" [] c = "m" -> "M" [] c = "y" -> "Y"
      [] c = "d" -> "D" [] c = "a" -> "A" [] c = "e" -> "E" [] c = "l" -> "L"
      [] c = "r" -> "R" [] c = "n" -> "N" [] OTHER -> c

\* units.lower()
Lower(text) == [i \in 1..Len(text) |-> LowerChar(text[i])]

\* sub in text
Contains(text, sub) ==
    \E i \in 1..(Len(text) - Len(sub) + 1) : SubSeq(text, i, i + Len(sub) - 1) = sub

\* text.index(c) counted from 1; 0 stands for the ValueError of a text
\* without c
IndexOf(text, c) ==
    IF \E i \in 1..Len(text) : text[i] = c
    THEN CHOOSE i \in 1..Len(text) :
            text[i] = c /\ \A j \in 1..(i - 1) : text[j] # c
    ELSE 0

\* text.strip()
RECURSIVE StripText(_)
StripText(text) ==
    IF text = <<>> THEN text
    ELSE IF Head(text) = " " THEN StripText(Tail(text))
    ELSE IF text[Len(text)] = " " THEN StripText(SubSeq(text, 1, Len(text) - 1))
    ELSE text

\* text.split("/")[1] of a text that holds a "/": what stands between the
\* first "/" and the next one, or the end of the text
SecondPart(text) ==
    LET rest == SubSeq(text, IndexOf(text, "/") + 1, Len(text))
    IN  IF IndexOf(rest, "/") = 0 THEN rest
        ELSE SubSeq(rest, 1, IndexOf(rest, "/") - 1)

DeltaWord == <<"d", "e", "l", "t", "a">>

\* _parse_units(units, ticker) of generate_html.py; exc is "IndexError" when
\* nothing but blanks follows the first "/" (parts[1].strip()[0])
ParseUnits(units, ticker) ==
    LET u == Lower(units)
    IN  IF ticker \in {"PRS85006092", "GDPNOW"}
        THEN [exc |-> "none", is_delta |-> FALSE, agg_code |-> "None", is_pct |-> FALSE]
        ELSE IF ~Contains(u, DeltaWord)
        THEN [exc |-> "none", is_delta |-> FALSE, agg_code |-> "None", is_pct |-> FALSE]
        ELSE IF ~Contains(u, <<"/">>)
        THEN [exc |-> "none", is_delta |-> TRUE, agg_code |-> "None",
              is_pct |-> Contains(u, <<"%">>)]
        ELSE LET part == StripText(SecondPart(u))
             IN  IF part = <<>>
                 THEN [exc |-> "IndexError: string index out of range",
                       is_delta |-> FALSE, agg_code |-> "None", is_pct |-> FALSE]
                 ELSE LET agg_letter == UpperChar(part[1])
                      IN  [exc |-> "none", is_delta |-> TRUE,
                           agg_code |-> CASE agg_letter = "M" -> "M"
                                          [] agg_letter = "Q" -> "Q"
                                          [] agg_letter \in {"Y", "A"} -> "A"
                                          [] OTHER -> "M",
                           is_pct |-> Contains(u, <<"%">>)]

\* one pass of the loop of build_section: the units are parsed before the
\* try; exc is what escapes the pass, the other fields are the row appended
BuildSectionPass(v, d, ind, n_lags) ==
    TheOne({ TheOne({ [exc |-> u.exc, Indicator |-> ind.name, Units |-> ind.units,
                       error |-> r.error, vals |-> r.vals, period |-> r.period] :
                      r \in {BuildSectionRow(v, d, ind.ticker, ind.freq, u.is_delta,
                                             u.agg_code, u.is_pct, n_lags)} }) :
             u \in {ParseUnits(ind.units, ind.ticker)} })

\* build_section(indicators, n_lags) of generate_html.py on the stored
\* tables: the rows appended so far, and exc, the exception that left the
\* loop ("none" when the loop came to its end); an indicator is
\* (name, ticker, freq, units)
RECURSIVE BuildSectionFrom(_, _, _, _, _)
BuildSectionFrom(v, d, indicators, n_lags, rows) ==
    IF indicators = <<>> THEN [exc |-> "none", rows |-> rows]
    ELSE TheOne({ IF p.exc # "none" THEN [exc |-> p.exc, rows |-> rows]
                  ELSE BuildSectionFrom(v, d, Tail(indicators), n_lags,
                          Append(rows, [Indicator |-> p.Indicator, Units |-> p.Units,
                                        error |-> p.error, vals |-> p.vals,
                                        period |-> p.period])) :
                  p \in {BuildSectionPass(v, d, Head(indicators), n_lags)} })

BuildSection(v, d, indicators, n_lags) ==
    BuildSectionFrom(v, d, indicators, n_lags, <<>>)

\* the cells WritePanel writes from what GetLevel or GetDelta gave back
WrittenCells(r, n_lags) ==
    IF r.exc # "none"
    THEN [exc |-> "none", written |-> FALSE, err |-> r.exc,
          date |-> NaT, present |-> None, lags |-> <<>>]
    ELSE TheOne({ [exc |-> "none", written |-> TRUE, err |-> "none",
                   date |-> r.latest_date, present |-> vals[Len(vals)],
                   lags |-> [i \in 1..n_lags |-> vals[Len(vals) - i]]] :
                  vals \in {IF Len(r.values) < n_lags + 1
                            THEN Nones(n_lags + 1 - Len(r.values)) \o r.values
                            ELSE r.values} })

\* what WritePanel leaves of one panel of one worksheet row: nothing
\* (written FALSE, err "none"), the "ERR: ..." text in the date cell, or the
\* date, the present value and the lags; exc is the exception that escaped.
\* A panel is (ticker, freq, units) as the cells hold them; an empty ticker
\* cell is "".  The lag columns are as many as n_lags, and no ticker is
\* longer than 20 characters.
WritePanel(v, d, panel, n_lags) ==
    LET untouched == [exc |-> "none", written |-> FALSE, err |-> "none",
                      date |-> NaT, present |-> None, lags |-> <<>>]
    IN  IF panel.ticker = "" \/ panel.freq = "Freq" THEN untouched
        ELSE TheOne({
          IF ~Contains(units, DeltaWord)
          THEN TheOne({ WrittenCells(r, n_lags) :
                        r \in {TemplateUpdate_GetLevel(v, d, panel.ticker, panel.freq,
                                                       n_lags)} })
          ELSE IF IndexOf(units, "/") = 0
          THEN [untouched EXCEPT !.exc = "ValueError: substring not found"]
          ELSE TheOne({ TheOne({ WrittenCells(r, n_lags) :
                                 r \in {TemplateUpdate_GetDelta(v, d, panel.ticker,
                                           panel.freq, agg, n_lags, pct)} }) :
                        agg \in {IF IndexOf(units, "/") + 1 <= Len(units)
                                 THEN units[IndexOf(units, "/") + 1] ELSE ""},
                        pct \in {Contains(units, <<"%">>)} }) :
          units \in {StripText(Lower(panel.units))} })

\* the loop at the end of TemplateUpdate-GitDeploy.py over the panels of the
\* worksheet rows in order, and wb.save: the panels reached, what each was
\* left as, and whether the workbook was saved
RECURSIVE WritePanelsFrom(_, _, _, _, _)
WritePanelsFrom(v, d, panels, n_lags, cells) ==
    IF panels = <<>> THEN [exc |-> "none", cells |-> cells, saved |-> TRUE]
    ELSE TheOne({ IF c.exc # "none"
                  THEN [exc |-> c.exc, cells |-> cells, saved |-> FALSE]
                  ELSE WritePanelsFrom(v, d, Tail(panels), n_lags, Append(cells, c)) :
                  c \in {WritePanel(v, d, Head(panels), n_lags)} })

WritePanels(v, d, panels, n_lags) == WritePanelsFrom(v, d, panels, n_lags, <<>>)


\* Longest indicator list, and most worksheet panels, of a batch.
MaxRows == 2

\* units texts of the indicator lists ("Trln $", "Q/Q % Delta",
\* "M/M % Delta", "Y/Y % Delta"), and two that are malformed: a delta
\* without a "/" and a delta with nothing after its "/"
UnitsTexts ==
    { <<"T", "r", "l", "n", " ", "$">>,
      <<"Q", "/", "Q", " ", "%", " ", "D", "e", "l", "t", "a">>,
      <<"M", "/", "M", " ", "%", " ", "D", "e", "l", "t", "a">>,
      <<"Y", "/", "Y", " ", "%", " ", "D", "e", "l", "t", "a">>,
      <<"%", " ", "D", "e", "l", "t", "a">>,
      <<"%", " ", "D", "e", "l", "t", "a", "/">> }

\* the indicators a list may hold: the stored ticker or one in no table,
\* the stored frequency or a token that is none, any of the units texts
Indicators ==
    [name : {"RGDP"}, ticker : {StoredTicker(freq), "UNKNOWN"},
     freq : {freq, "X"}, units : UnitsTexts]

\* the panels a worksheet may hold: as the indicators, or an empty ticker cell
Panels ==
    [ticker : {StoredTicker(freq), "UNKNOWN", ""}, freq : {freq, "X"},
     units : UnitsTexts]

SeqsUpTo(S, k) == UNION {[1..m -> S] : m \in 1..k}

\* the tables of a monthly or a quarterly store, each period with a value
InitReport ==
    /\ pc = "reporting"
    /\ freq \in {"M", "Q"}
    /\ ticker_list = <<StoredTicker(freq)>>
    /\ LET index == SortedSeq(QueryPeriods(freq))
           s == StoreOf(StoredTicker(freq), index, [j \in 1..Len(index) |-> 2])
       IN  values = s.values /\ dates = s.dates
    /\ warning_list = <<>>
    /\ source = <<>>
    /\ call = NoCall

\* build_section(indicators, n_lags)
BuildSectionCall(indicators, n) ==
    /\ pc = "reporting"
    /\ pc' = "reported"
    /\ call' = [op |-> "build_section", indicators |-> indicators, n_lags |-> n,
                result |-> BuildSection(values, dates, indicators, n)]
    /\ UNCHANGED <<freq, ticker_list, warning_list, source, values, dates>>

\* a run of TemplateUpdate-GitDeploy.py on a worksheet with these panels
WritePanelsCall(panels, n) ==
    /\ pc = "reporting"
    /\ pc' = "reported"
    /\ call' = [op |-> "WritePanel", indicators |-> panels, n_lags |-> n,
                result |-> WritePanels(values, dates, panels, n)]
    /\ UNCHANGED <<freq, ticker_list, warning_list, source, values, dates>>

NextReport ==
    \/ /\ pc = "reporting"
       /\ \E indicators \in SeqsUpTo(Indicators, MaxRows), n \in 1..MaxLags :
            BuildSectionCall(indicators, n)
    \/ /\ pc = "reporting"
       /\ \E panels \in SeqsUpTo(Panels, MaxRows), n \in 1..MaxLags :
            WritePanelsCall(panels, n)

SpecReport == InitReport /\ [][NextReport]_vars

\* ------------------------------------------------ report batch: the claims
Reported(op) == pc = "reported" /\ call.op = op

\* the units text is one the parsers take: not a delta, or a delta with a
\* character that is not blank after its "/"
WellFormedUnits(units) ==
    LET u == StripText(Lower(units))
    IN  Contains(u, DeltaWord) =>
            /\ IndexOf(u, "/") # 0
            /\ StripText(SecondPart(u)) # <<>>

\* C17: whatever the rows of a batch raise, the batch comes to its end:
\* build_section returns one output row per indicator in input order, and
\* the worksheet loop reaches every panel and saves the workbook.
C17_BatchReachesEveryRow ==
    /\ Reported("build_section") =>
         /\ call.result.exc = "none"
         /\ Len(call.result.rows) = Len(call.indicators)
         /\ \A i \in 1..Len(call.indicators) :
              /\ call.result.rows[i].Indicator = call.indicators[i].name
              /\ call.result.rows[i].Units = call.indicators[i].units
    /\ Reported("WritePanel") =>
         /\ call.result.exc = "none"
         /\ call.result.saved
         /\ Len(call.result.cells) = Len(call.indicators)

\* (what does hold) C17 for batches in which every units text is well
\* formed: unsupported frequencies, unknown tickers and unsupported
\* conversions are reported in their own row and the batch goes on.
BatchReachesEveryRowWhenUnitsWellFormed ==
    ( /\ pc = "reported"
      /\ \A i \in 1..Len(call.indicators) :
            WellFormedUnits(call.indicators[i].units) )
        => C17_BatchReachesEveryRow

\* (what does hold) a failing row's error is recorded in its own output row
\* and the row after it is computed as if it stood alone.
FailedRowLeavesNextRowAlone ==
    /\ Reported("build_section") /\ call.result.exc = "none"
         => \A i \in 1..Len(call.indicators) :
              call.result.rows[i]
                = BuildSection(values, dates, <<call.indicators[i]>>,
                               call.n_lags).rows[1]
    /\ Reported("WritePanel") /\ call.result.exc = "none"
         => \A i \in 1..Len(call.indicators) :
              call.result.cells[i]
                = WritePanel(values, dates, call.indicators[i], call.n_lags)


\* --------------------------------------------- queries: errors, independence
\* the three errors the extractor is to raise
ExtractorErrors ==
    {"ValueError: Unsupported frequency", "KeyError: Ticker not found",
     "ValueError: Unsupported conversion"}

\* C19: GetLevel and GetDelta (either implementation) raise nothing but
\* unsupported frequency, ticker not found or unsupported conversion, and
\* for a stored column without any value they return a window of missing
\* markers.
C19_OnlyExtractorErrors ==
    Returned({"GetLevel", "GetDelta", "TemplateUpdate_GetLevel",
              "TemplateUpdate_GetDelta"}) =>
      /\ call.result.exc \in ExtractorErrors \cup {"none"}
      /\ ( /\ call.ticker \in Range(values.columns)
           /\ ValidRows = {}
           /\ call.op \in {"GetLevel", "TemplateUpdate_GetLevel"} ) =>
             /\ call.result.exc = "none"
             /\ \A i \in 1..Len(call.result.values) : IsNull(call.result.values[i])

\* (what does hold) a column without any value makes every query of it fail
\* with KeyError(None), raised by get_loc(last_valid_index()).
EmptyColumnRaisesKeyErrorNone ==
    ( /\ Returned({"GetLevel", "GetDelta", "TemplateUpdate_GetLevel",
                   "TemplateUpdate_GetDelta"})
      /\ call.ticker \in Range(values.columns)
      /\ ValidRows = {} )
        => call.result.exc = "KeyError: None"


\* ------------------------------------------------ tables of two tickers
\* _load_csv / pd.read_csv(path, index_col=0, parse_dates=True) of a table
\* Fetch wrote: the Time column becomes a DatetimeIndex
ReadCsv(frame) ==
    [index |-> frame.index, columns |-> frame.columns, data |-> frame.data,
     index_dtype |-> "datetime64[ns]"]

\* the ticker fetched in one call with the stored ticker of a frequency
OtherTicker(f) ==
    CASE f = "M" -> "CES0500000003"
      [] f = "Q" -> "GDPNOW"
      [] f = "D" -> "DGS2"

\* one observation per period of the set, in order of date, released
\* 20 days after the period start, the k-th with the value Level(k)
ObservationsAt(periods) ==
    LET index == SortedSeq(periods)
    IN  [k \in 1..Len(index) |->
           [date |-> index[k], realtime_start |-> index[k] + 20, value |-> Level(k)]]

\* the tables Fetch builds for the tickers of the list
FetchedTables(tickers) ==
    LET r == Fetch(tickers, source, freq, <<>>)
    IN  [values |-> ReadCsv(r.values), dates |-> ReadCsv(r.dates)]

\* the periods the two tickers may have observations in: the first three
\* of the periods of the frequency
SharedPeriods(f) == Range(SubSeq(SortedSeq(QueryPeriods(f)), 1, 3))

\* the tables of a frequency after Fetch of the stored ticker and another
\* one: each has an observation in some of the periods, the stored ticker
\* in at least one
InitShared ==
    /\ pc = "serving"
    /\ freq \in {"M", "Q", "D"}
    /\ ticker_list = <<StoredTicker(freq), OtherTicker(freq)>>
    /\ warning_list = <<>>
    /\ \E own \in (SUBSET SharedPeriods(freq)) \ {{}}, other \in SUBSET SharedPeriods(freq) :
         source = [t \in Range(ticker_list) |->
                     [ok |-> TRUE,
                      rows |-> IF t = StoredTicker(freq) THEN ObservationsAt(own)
                               ELSE ObservationsAt(other)]]
    /\ values = FetchedTables(ticker_list).values
    /\ dates = FetchedTables(ticker_list).dates
    /\ call = NoCall

SpecShared == InitShared /\ [][NextQuery]_vars

\* the query that was made, made of the tables v and d
SameQuery(v, d) ==
    CASE call.op = "GetLevel" -> GetLevel(v, d, call.ticker, freq, call.n_lags)
      [] call.op = "GetDelta" ->
            GetDelta(v, d, call.ticker, freq, call.agg_freq, call.n_lags, call.pct)
      [] call.op = "TemplateUpdate_GetLevel" ->
            TemplateUpdate_GetLevel(v, d, call.ticker, freq, call.n_lags)
      [] call.op = "TemplateUpdate_GetDelta" ->
            TemplateUpdate_GetDelta(v, d, call.ticker, freq, call.agg_freq,
                                    call.n_lags, call.pct)
      [] call.op = "build_section" ->
            BuildSectionRow(v, d, call.ticker, freq, call.is_delta, call.agg_freq,
                            call.pct, call.n_lags)

\* the periods in which the ticker has an observation
ObservedPeriods(t) ==
    {PeriodStart(freq, source[t].rows[k].date) : k \in 1..Len(source[t].rows)}

\* C20: a query of a ticker gives what it gives on the tables Fetch builds
\* from that ticker's observations alone, whatever periods the other ticker
\* of the table adds to the shared index.
C20_TickerIndependence ==
    (pc = "returned" /\ call.ticker = StoredTicker(freq)) =>
        LET alone == FetchedTables(<<StoredTicker(freq)>>)
        IN  call.result = SameQuery(alone.values, alone.dates)

\* the result without the list of recent release dates
WithoutLatestDates(r) ==
    IF call.op = "build_section" THEN r ELSE [r EXCEPT !.latest_dates = <<>>]

\* (what does hold) when the other ticker adds no period before the last
\* one the queried ticker has an observation in, the query gives the same
\* latest date, values and period as on the ticker's own tables (the list
\* of recent release dates is cut from the end of the shared index and does
\* change; a daily year-over-year delta is left out, as the days added may
\* collide under the year offset).  A period added between two of the ticker's own does change
\* the values: with GDPC1 observed in 2024Q1 and 2025Q1 and GDPNOW in
\* 2024Q2, the level window of GDPC1 is (missing, 110) and not (100, 110).
TickerIndependenceWhenNoPeriodInserted ==
    ( /\ pc = "returned" /\ call.ticker = StoredTicker(freq)
      /\ freq = "D" => call.agg_freq \in {"D", "None"}
      /\ \A p \in ObservedPeriods(OtherTicker(freq)) \ ObservedPeriods(StoredTicker(freq)) :
           \A q \in ObservedPeriods(StoredTicker(freq)) : q < p )
        => LET alone == FetchedTables(<<StoredTicker(freq)>>)
           IN  WithoutLatestDates(call.result)
                 = WithoutLatestDates(SameQuery(alone.values, alone.dates))


\* ------------------------------------------ queries: level and delta rows
\* the level query of the implementation whose delta query was made, with
\* the same n_lags
LevelOfCall ==
    IF call.op = "GetDelta"
    THEN GetLevel(values, dates, call.ticker, freq, call.n_lags)
    ELSE TemplateUpdate_GetLevel(values, dates, call.ticker, freq, call.n_lags)

\* the delta query that was made, with a window that takes in every row up
\* to the last value
WholeDelta ==
    IF call.op = "GetDelta"
    THEN GetDelta(values, dates, call.ticker, freq, call.agg_freq,
                  Len(Column), call.pct)
    ELSE TemplateUpdate_GetDelta(values, dates, call.ticker, freq, call.agg_freq,
                                 Len(Column), call.pct)

WithinSevenDaysAnyAge(now, latest_ts) == TRUE

\* pd.Timestamp.now() - latest_ts <= pd.Timedelta(days=7), latest_ts at midnight
WithinSevenDays(now, latest_ts) ==
    \/ now.day - latest_ts < 7
    \/ now.day - latest_ts = 7 /\ ~now.late

\* isNewRelease(ticker, freq): exc is the exception it raised, or "none"
\* and result what it returned
IsNewRelease(v, d, raw, ticker, f) ==
    LET freq_code == NormalizeFreq(f)
    IN  IF freq_code = "ValueError"
        THEN [exc |-> "ValueError: Unsupported frequency", result |-> FALSE]
        ELSE IF freq_code = "D" THEN [exc |-> "none", result |-> TRUE]
        ELSE IF ~raw.exists THEN [exc |-> "none", result |-> TRUE]
        ELSE TheOne({
               IF g.exc # "none" THEN [exc |-> g.exc, result |-> FALSE]
               ELSE IF ticker \notin raw.time_columns
               THEN [exc |-> "none", result |-> TRUE]
               ELSE [exc |-> "none",
                     result |-> Cardinality({k \in 1..Len(raw.data[ticker]) :
                                    raw.data[ticker][k] = g.current_period}) <= 1] :
               g \in {GetLevel(v, d, ticker, f, 1)} })

\* the freshness of a row of build_section (lines 320-327), and FALSE for
\* the row of the except branch; row is what BuildSectionRow gives
Fresh(v, d, raw, now, ticker, f, row) ==
    IF row.error # "none" THEN FALSE
    ELSE IF row.latest_date = NaT THEN FALSE
    ELSE IF ~WithinSevenDays(now, row.latest_date) THEN FALSE
    ELSE TheOne({ IF r.exc # "none" THEN FALSE ELSE r.result :
                  r \in {IsNewRelease(v, d, raw, ticker, f)} })

\* the two periods of the stored table
FreshPeriods(f) == SubSeq(SortedSeq(QueryPeriods(f)), 1, 2)

\* the times of a call: three days after the release of the second period,
\* seven days after it at midnight and later that day, and two days after
\* the release of the first period
NowValues(f) ==
    { [day |-> FreshPeriods(f)[2] + 23, late |-> TRUE],
      [day |-> FreshPeriods(f)[2] + 27, late |-> FALSE],
      [day |-> FreshPeriods(f)[2] + 27, late |-> TRUE],
      [day |-> FreshPeriods(f)[1] + 22, late |-> FALSE] }

\* the raw snapshots: none, one without a Time column of the ticker, and
\* one whose Time column of the ticker has up to two cells
RawSnapshots(t, f) ==
    { [exists |-> FALSE, time_columns |-> {}, data |-> <<>>],
      [exists |-> TRUE, time_columns |-> {}, data |-> <<>>] }
    \cup { [exists |-> TRUE, time_columns |-> {t}, data |-> [u \in {t} |-> cells]] :
             cells \in UNION {[1..m -> Range(FreshPeriods(f)) \cup {NaT}] : m \in 0..2} }

\* the dates table of a ticker read with get_series: no release is known
WithoutReleases(frame) ==
    [frame EXCEPT !.data = [u \in DOMAIN frame.data |->
                              [j \in 1..Len(frame.index) |-> NaT]]]

\* the tables of a monthly, quarterly or daily ticker over two periods, with
\* or without release dates, and a raw snapshot
InitFresh ==
    /\ pc = "serving"
    /\ freq \in {"M", "Q", "D"}
    /\ ticker_list = <<StoredTicker(freq)>>
    /\ warning_list = <<>>
    /\ \E pick \in [1..2 -> 0..2], released \in BOOLEAN :
         LET s == StoreOf(StoredTicker(freq), FreshPeriods(freq), pick)
         IN  /\ values = s.values
             /\ dates = IF released THEN s.dates ELSE WithoutReleases(s.dates)
    /\ source \in RawSnapshots(StoredTicker(freq), freq)
    /\ call = NoCall

\* isNewRelease(ticker, freq)
IsNewReleaseCall(t) ==
    /\ pc = "serving"
    /\ pc' = "returned"
    /\ call' = [op |-> "isNewRelease", ticker |-> t,
                result |-> IsNewRelease(values, dates, source, t, freq)]
    /\ UNCHANGED <<freq, ticker_list, warning_list, source, values, dates>>

\* one pass of the loop of build_section at the time now, _fresh included
BuildSectionFreshCall(t, u, n, now) ==
    /\ pc = "serving"
    /\ pc' = "returned"
    /\ call' = TheOne({ [op |-> "build_section", ticker |-> t, now |-> now,
                         error |-> row.error, latest_date |-> row.latest_date,
                         fresh |-> Fresh(values, dates, source, now, t, freq, row)] :
                        row \in {BuildSectionRow(values, dates, t, freq, u.is_delta,
                                                 u.agg_code, u.is_pct, n)} })
    /\ UNCHANGED <<freq, ticker_list, warning_list, source, values, dates>>

NextFresh ==
    \/ /\ pc = "serving"
       /\ \E t \in QueryTickers : IsNewReleaseCall(t)
    \/ /\ pc = "serving"
       /\ \E t \in QueryTickers, u \in ParsedUnits, now \in NowValues(freq) :
            BuildSectionFreshCall(t, u, MaxLags, now)

SpecFresh == InitFresh /\ [][NextFresh]_vars

\* ---------------------------------------------------- freshness: the claims
\* the number of rows of the raw snapshot that carry the current period of
\* the stored ticker: the period of its last value
RowsOfCurrentPeriod ==
    Cardinality({k \in 1..Len(source.data[StoredTicker(freq)]) :
                    source.data[StoredTicker(freq)][k] = values.index[Max(ValidRows)]})

\* what isNewRelease is to answer for ticker t
IsNewReleaseAsStated(t) ==
    \/ freq = "D"
    \/ ~source.exists
    \/ t \notin source.time_columns
    \/ RowsOfCurrentPeriod <= 1

IsNewReleaseRaisesWithoutValue ==
    ( /\ Returned({"isNewRelease"})
      /\ freq # "D"
      /\ source.exists
      /\ (call.ticker \notin Range(values.columns) \/ ValidRows = {}) ) =>
        call.result.exc \in {"KeyError: Ticker not found", "KeyError: None"}

====
